---- MODULE Spec2Model ----
(***************************************************************************)
(* Model of the generator algebra of synth (gen/src/generator/mod.rs).     *)
(*                                                                         *)
(* A generator is a record holding its own step-state and its children.    *)
(* Every `next` of the source is an operator XNext(g, rng) that returns    *)
(* the record [g, rng, res, log]: the generator after the step, the RNG    *)
(* after the step, the GeneratorState returned, and the sequence of calls  *)
(* the combinator made on its direct children (ghost, for the claims       *)
(* about who is stepped when).                                             *)
(***************************************************************************)
EXTENDS Integers, Sequences, FiniteSets, TLC

\* ------------------------------------------------------------------ bounds
TapeLen == 3        \* period of the modelled random stream
RngMax == 1         \* a draw is a number in 0..RngMax
MaxRounds == 4      \* rounds of the driven generator that a run observes
MaxFuel == 12       \* steps `complete` may take before it is given up

\* ------------------------------------------------------------------ values
\* Every value carries its type tag first, so that values of different
\* Rust types are different values.
IntV(n) == <<"int", n>>
VecV(s) == <<"vec", s>>
PairV(a, b) == <<"pair", a, b>>
SomeV(v) == <<"some", v>>
NoneV == <<"none">>
UnitV == <<"unit">>
IsSome(o) == o[1] = "some"
IsNone(o) == o[1] = "none"
Unwrap(o) == o[2]

\* GeneratorState<Y, R>
Yielded(y) == [tag |-> "Yielded", val |-> y]
Completed(r) == [tag |-> "Complete", val |-> r]
is_complete(s) == s.tag = "Complete"
is_yielded(s) == s.tag = "Yielded"
\* GeneratorState::map_complete(|c| Some(c)), as used by OneOf and Maybe
map_complete_some(s) == IF is_complete(s) THEN Completed(SomeV(s.val)) ELSE s

\* ------------------------------------------------------------------ RNG
\* The RNG is a deterministic stream: a tape chosen when the RNG is seeded
\* and the position of the next draw.  A draw returns the value under the
\* position and advances it.
Tapes == [1..TapeLen -> 0..RngMax]
RngDraw(rng) ==
    [val |-> rng.tape[rng.pos + 1],
     rng |-> [rng EXCEPT !.pos = (rng.pos + 1) % Len(rng.tape)]]

\* ------------------------------------------------------------------ results
R(g, rng, res, log) == [g |-> g, rng |-> rng, res |-> res, log |-> log]
Ev(who, res) == [who |-> who, at |-> 0, res |-> res]
EvAt(who, idx, res) == [who |-> who, at |-> idx, res |-> res]
Prepend(evs, m) == [m EXCEPT !.log = evs \o m.log]

RECURSIVE GenNext(_, _)
RECURSIVE GenComplete(_, _, _, _, _)

\* ------------------------------------------------------------------ primitives
YieldWrap(y) == [kind |-> "Yield", output |-> y]
CompleteWrap(c) == [kind |-> "Complete", output |-> c]
CompleteEmpty == CompleteWrap(UnitV)
Random == [kind |-> "Random"]

YieldNext(g, rng) == R(g, rng, Yielded(g.output), <<>>)

\* CompleteNext that yields its value instead of completing with it
CompleteNextYields(g, rng) == R(g, rng, Yielded(g.output), <<>>)

CompleteNext(g, rng) == R(g, rng, Completed(g.output), <<>>)

RandomNext(g, rng) ==
    LET d == RngDraw(rng)
    IN R(g, d.rng, Yielded(IntV(d.val)), <<Ev("rng", Yielded(IntV(d.val)))>>)

\* ------------------------------------------------------------------ once
once(g) == [kind |-> "Once", inner |-> g, output |-> NoneV]

RECURSIVE OnceNext(_, _)
\* OnceNext that completes with a value it takes from the inner generator
\* anew instead of the stashed one
OnceNextRedraw(g, rng) ==
    IF IsSome(g.output)
    THEN LET n == GenNext(g.inner, rng)
         IN R([g EXCEPT !.inner = n.g, !.output = NoneV], n.rng, Completed(n.res.val),
              <<Ev("inner", n.res)>>)
    ELSE LET n == GenNext(g.inner, rng)
         IN R([g EXCEPT !.inner = n.g, !.output = SomeV(n.res.val)],
              n.rng, Yielded(n.res.val), <<Ev("inner", n.res)>>)

OnceNext(g, rng) ==
    IF IsSome(g.output)
    THEN R([g EXCEPT !.output = NoneV], rng, Completed(Unwrap(g.output)), <<>>)
    ELSE LET n == GenNext(g.inner, rng)
             ev == <<Ev("inner", n.res)>>
         IN IF is_yielded(n.res)
            THEN R([g EXCEPT !.inner = n.g, !.output = SomeV(n.res.val)],
                   n.rng, Yielded(n.res.val), ev)
            ELSE Prepend(ev, OnceNext([g EXCEPT !.inner = n.g], n.rng))

\* ------------------------------------------------------------------ and_then
and_then(g, f) == [kind |-> "AndThen", inner |-> g, closure |-> f, output |-> NoneV]

\* The closures handed to and_then: each maps a returned value to a generator.
\*   "just_sub": |value| Yield::wrap(value - 42).once()   (tests::and_then)
\*   "wrap":     |value| Complete::wrap(value)
\*   "draws":    |value| Random.once().repeat(value)
Closures == {"just_sub", "wrap", "draws"}
repeat(g, len) == [kind |-> "Repeat", inner |-> g, len |-> len, rem |-> len, ret |-> <<>>]
\* The closures |x| f(x).and_then(h), by name: the f and the h of each
Composed ==
    [c \in {"just_sub.just_sub", "just_sub.wrap", "wrap.just_sub", "wrap.draws", "wrap.wrap",
            "draws.wrap"} |->
        CASE c = "just_sub.just_sub" -> <<"just_sub", "just_sub">>
          [] c = "just_sub.wrap" -> <<"just_sub", "wrap">>
          [] c = "wrap.just_sub" -> <<"wrap", "just_sub">>
          [] c = "wrap.draws" -> <<"wrap", "draws">>
          [] c = "wrap.wrap" -> <<"wrap", "wrap">>
          [] c = "draws.wrap" -> <<"draws", "wrap">>]

RECURSIVE ApplyClosure(_, _)
\* ApplyClosure in which |x| f(x).and_then(h) gives f(x) alone
ApplyClosureDropsSecond(f, r) ==
    CASE f = "just_sub" -> once(YieldWrap(IntV(r[2] - 42)))
      [] f = "wrap" -> CompleteWrap(r)
      [] f = "draws" -> repeat(once(Random), r[2])
      [] OTHER -> ApplyClosure(Composed[f][1], r)

ApplyClosure(f, r) ==
    CASE f = "just_sub" -> once(YieldWrap(IntV(r[2] - 42)))
      [] f = "wrap" -> CompleteWrap(r)
      [] f = "draws" -> repeat(once(Random), r[2])
      [] OTHER -> and_then(ApplyClosure(Composed[f][1], r), Composed[f][2])

RECURSIVE AndThenNext(_, _)
\* AndThenNext that keeps the second generator after it has completed
AndThenNextKeepsOutput(g, rng) ==
    IF IsSome(g.output)
    THEN LET n == GenNext(Unwrap(g.output), rng)
             ev == <<Ev("output", n.res)>>
         IN R([g EXCEPT !.output = SomeV(n.g)], n.rng, n.res, ev)
    ELSE LET n == GenNext(g.inner, rng)
             ev == <<Ev("inner", n.res)>>
         IN IF is_yielded(n.res)
            THEN R([g EXCEPT !.inner = n.g], n.rng, Yielded(n.res.val), ev)
            ELSE Prepend(ev \o <<Ev("closure", n.res)>>,
                         AndThenNext([g EXCEPT !.inner = n.g,
                                               !.output = SomeV(ApplyClosure(g.closure, n.res.val))],
                                     n.rng))

AndThenNext(g, rng) ==
    IF IsSome(g.output)
    THEN LET n == GenNext(Unwrap(g.output), rng)
             ev == <<Ev("output", n.res)>>
         IN R([g EXCEPT !.output = IF is_complete(n.res) THEN NoneV ELSE SomeV(n.g)],
              n.rng, n.res, ev)
    ELSE LET n == GenNext(g.inner, rng)
             ev == <<Ev("inner", n.res)>>
         IN IF is_yielded(n.res)
            THEN R([g EXCEPT !.inner = n.g], n.rng, Yielded(n.res.val), ev)
            ELSE Prepend(ev \o <<Ev("closure", n.res)>>,
                         AndThenNext([g EXCEPT !.inner = n.g,
                                               !.output = SomeV(ApplyClosure(g.closure, n.res.val))],
                                     n.rng))

\* ------------------------------------------------------------------ concatenate
concatenate(l, r) == [kind |-> "Concatenate", left |-> l, left_output |-> NoneV, right |-> r]

RECURSIVE ConcatenateNext(_, _)
\* ConcatenateNext that returns the pair the wrong way round
ConcatenateNextSwapped(g, rng) ==
    IF IsNone(g.left_output)
    THEN LET n == GenNext(g.left, rng)
             ev == <<Ev("left", n.res)>>
         IN IF is_complete(n.res)
            THEN Prepend(ev, ConcatenateNext([g EXCEPT !.left = n.g,
                                                       !.left_output = SomeV(n.res.val)],
                                             n.rng))
            ELSE R([g EXCEPT !.left = n.g], n.rng, Yielded(n.res.val), ev)
    ELSE LET n == GenNext(g.right, rng)
             ev == <<Ev("right", n.res)>>
         IN IF is_complete(n.res)
            THEN R([g EXCEPT !.right = n.g, !.left_output = NoneV], n.rng,
                   Completed(PairV(n.res.val, Unwrap(g.left_output))), ev)
            ELSE R([g EXCEPT !.right = n.g], n.rng, Yielded(n.res.val), ev)

ConcatenateNext(g, rng) ==
    IF IsNone(g.left_output)
    THEN LET n == GenNext(g.left, rng)
             ev == <<Ev("left", n.res)>>
         IN IF is_complete(n.res)
            THEN Prepend(ev, ConcatenateNext([g EXCEPT !.left = n.g,
                                                       !.left_output = SomeV(n.res.val)],
                                             n.rng))
            ELSE R([g EXCEPT !.left = n.g], n.rng, Yielded(n.res.val), ev)
    ELSE LET n == GenNext(g.right, rng)
             ev == <<Ev("right", n.res)>>
         IN IF is_complete(n.res)
            THEN R([g EXCEPT !.right = n.g, !.left_output = NoneV], n.rng,
                   Completed(PairV(Unwrap(g.left_output), n.res.val)), ev)
            ELSE R([g EXCEPT !.right = n.g], n.rng, Yielded(n.res.val), ev)

\* ------------------------------------------------------------------ brace
brace(g, begin, end) ==
    [kind |-> "Brace", begin |-> begin, inner |-> g, end |-> end,
     state |-> "Begin", complete |-> NoneV]
prefix(g, p) == brace(g, p, CompleteEmpty)
suffix(g, s) == brace(g, CompleteEmpty, s)

RECURSIVE BraceNext(_, _)
\* BraceNext that leaves the phase at End when the end generator completes
BraceNextStuck(g, rng) ==
    IF g.state = "End"
    THEN LET n == GenNext(g.end, rng)
             ev == <<Ev("end", n.res)>>
         IN IF is_complete(n.res)
            THEN R([g EXCEPT !.end = n.g], n.rng,
                   Completed(IF IsSome(g.complete) THEN Unwrap(g.complete) ELSE UnitV), ev)
            ELSE R([g EXCEPT !.end = n.g], n.rng, Yielded(n.res.val), ev)
    ELSE LET n == GenNext(IF g.state = "Begin" THEN g.begin ELSE g.inner, rng)
         IN IF g.state = "Begin"
            THEN IF is_complete(n.res)
                 THEN Prepend(<<Ev("begin", n.res)>>,
                              BraceNext([g EXCEPT !.begin = n.g, !.state = "Middle"], n.rng))
                 ELSE R([g EXCEPT !.begin = n.g], n.rng, Yielded(n.res.val), <<Ev("begin", n.res)>>)
            ELSE IF is_complete(n.res)
                 THEN Prepend(<<Ev("inner", n.res)>>,
                              BraceNext([g EXCEPT !.inner = n.g, !.complete = SomeV(n.res.val),
                                                  !.state = "End"], n.rng))
                 ELSE R([g EXCEPT !.inner = n.g], n.rng, Yielded(n.res.val), <<Ev("inner", n.res)>>)

\* BraceNext that returns what the end generator returned
BraceNextReturnsEnd(g, rng) ==
    CASE g.state = "Begin" ->
           LET n == GenNext(g.begin, rng)
               ev == <<Ev("begin", n.res)>>
           IN IF is_complete(n.res)
              THEN Prepend(ev, BraceNext([g EXCEPT !.begin = n.g, !.state = "Middle"], n.rng))
              ELSE R([g EXCEPT !.begin = n.g], n.rng, Yielded(n.res.val), ev)
      [] g.state = "Middle" ->
           LET n == GenNext(g.inner, rng)
               ev == <<Ev("inner", n.res)>>
           IN IF is_complete(n.res)
              THEN Prepend(ev, BraceNext([g EXCEPT !.inner = n.g,
                                                   !.complete = SomeV(n.res.val),
                                                   !.state = "End"], n.rng))
              ELSE R([g EXCEPT !.inner = n.g], n.rng, Yielded(n.res.val), ev)
      [] g.state = "End" ->
           LET n == GenNext(g.end, rng)
               ev == <<Ev("end", n.res)>>
           IN IF is_complete(n.res)
              THEN R([g EXCEPT !.end = n.g, !.state = "Begin", !.complete = NoneV],
                     n.rng, Completed(n.res.val), ev)
              ELSE R([g EXCEPT !.end = n.g], n.rng, Yielded(n.res.val), ev)

BraceNext(g, rng) ==
    CASE g.state = "Begin" ->
           LET n == GenNext(g.begin, rng)
               ev == <<Ev("begin", n.res)>>
           IN IF is_complete(n.res)
              THEN Prepend(ev, BraceNext([g EXCEPT !.begin = n.g, !.state = "Middle"], n.rng))
              ELSE R([g EXCEPT !.begin = n.g], n.rng, Yielded(n.res.val), ev)
      [] g.state = "Middle" ->
           LET n == GenNext(g.inner, rng)
               ev == <<Ev("inner", n.res)>>
           IN IF is_complete(n.res)
              THEN Prepend(ev, BraceNext([g EXCEPT !.inner = n.g,
                                                   !.complete = SomeV(n.res.val),
                                                   !.state = "End"], n.rng))
              ELSE R([g EXCEPT !.inner = n.g], n.rng, Yielded(n.res.val), ev)
      [] g.state = "End" ->
           LET n == GenNext(g.end, rng)
               ev == <<Ev("end", n.res)>>
           IN IF is_complete(n.res)
              THEN R([g EXCEPT !.end = n.g, !.state = "Begin", !.complete = NoneV],
                     n.rng, Completed(Unwrap(g.complete)), ev)
              ELSE R([g EXCEPT !.end = n.g], n.rng, Yielded(n.res.val), ev)

\* ------------------------------------------------------------------ aggregate
aggregate(g) == [kind |-> "Aggregate", inner |-> g, output |-> NoneV]

\* The loop of Aggregate::next: step the inner generator, pushing what it
\* yields onto `out`, until it completes.
RECURSIVE AggregateLoop(_, _, _, _)
\* AggregateLoop that collects the yielded values in reverse order
AggregateLoopReversed(inner, rng, out, log) ==
    LET n == GenNext(inner, rng)
        ev == <<Ev("inner", n.res)>>
    IN IF is_yielded(n.res)
       THEN AggregateLoop(n.g, n.rng, <<n.res.val>> \o out, log \o ev)
       ELSE [g |-> n.g, rng |-> n.rng, out |-> out, ret |-> n.res.val, log |-> log \o ev]

AggregateLoop(inner, rng, out, log) ==
    LET n == GenNext(inner, rng)
        ev == <<Ev("inner", n.res)>>
    IN IF is_yielded(n.res)
       THEN AggregateLoop(n.g, n.rng, Append(out, n.res.val), log \o ev)
       ELSE [g |-> n.g, rng |-> n.rng, out |-> out, ret |-> n.res.val, log |-> log \o ev]

\* AggregateNext that stashes the collected vector as the value to complete with
AggregateNextReturnsVec(g, rng) ==
    IF IsSome(g.output)
    THEN R([g EXCEPT !.output = NoneV], rng, Completed(Unwrap(g.output)), <<>>)
    ELSE LET l == AggregateLoop(g.inner, rng, <<>>, <<>>)
         IN R([g EXCEPT !.inner = l.g, !.output = SomeV(VecV(l.out))], l.rng,
              Yielded(VecV(l.out)), l.log)

AggregateNext(g, rng) ==
    IF IsSome(g.output)
    THEN R([g EXCEPT !.output = NoneV], rng, Completed(Unwrap(g.output)), <<>>)
    ELSE LET l == AggregateLoop(g.inner, rng, <<>>, <<>>)
         IN R([g EXCEPT !.inner = l.g, !.output = SomeV(l.ret)], l.rng,
              Yielded(VecV(l.out)), l.log)

\* ------------------------------------------------------------------ repeat
RECURSIVE RepeatNext(_, _)
\* RepeatNext that collects the returned values in reverse order
RepeatNextPushFront(g, rng) ==
    IF g.rem # 0
    THEN LET n == GenNext(g.inner, rng)
             ev == <<Ev("inner", n.res)>>
         IN IF is_yielded(n.res)
            THEN R([g EXCEPT !.inner = n.g], n.rng, Yielded(n.res.val), ev)
            ELSE Prepend(ev, RepeatNext([g EXCEPT !.inner = n.g,
                                                  !.rem = g.rem - 1,
                                                  !.ret = <<n.res.val>> \o g.ret],
                                        n.rng))
    ELSE R([g EXCEPT !.rem = g.len, !.ret = <<>>], rng, Completed(VecV(g.ret)), <<>>)

RepeatNext(g, rng) ==
    IF g.rem # 0
    THEN LET n == GenNext(g.inner, rng)
             ev == <<Ev("inner", n.res)>>
         IN IF is_yielded(n.res)
            THEN R([g EXCEPT !.inner = n.g], n.rng, Yielded(n.res.val), ev)
            ELSE Prepend(ev, RepeatNext([g EXCEPT !.inner = n.g,
                                                  !.rem = g.rem - 1,
                                                  !.ret = Append(g.ret, n.res.val)],
                                        n.rng))
    ELSE R([g EXCEPT !.rem = g.len, !.ret = <<>>], rng, Completed(VecV(g.ret)), <<>>)

\* ------------------------------------------------------------------ replay
replay(g, len) ==
    [kind |-> "Replay", inner |-> g, len |-> len, idx |-> 0, rem |-> SomeV(len),
     buf |-> <<>>, ret |-> NoneV]
replay_forever(g) ==
    [kind |-> "Replay", inner |-> g, len |-> 0, idx |-> 0, rem |-> NoneV,
     buf |-> <<>>, ret |-> NoneV]

purge(g) ==
    [g EXCEPT !.buf = <<>>, !.ret = NoneV, !.idx = 0,
              !.rem = IF IsSome(g.rem) THEN SomeV(g.len) ELSE g.rem]

\* `let mut rem = self.rem;` copies the Option<usize> (it is Copy): the
\* decrement `rem.as_mut().map(|inner| *inner -= 1)` acts on the local copy,
\* which is dropped when `next` returns; self.rem keeps its value.
RECURSIVE ReplayNext(_, _)
\* ReplayNext that does not rewind the buffer index when a replay completes
ReplayNextNoRewind(g, rng) ==
    IF IsSome(g.ret)
    THEN IF (IF IsSome(g.rem) THEN Unwrap(g.rem) > 0 ELSE TRUE)
         THEN IF g.idx < Len(g.buf)
              THEN R([g EXCEPT !.idx = g.idx + 1], rng, Yielded(g.buf[g.idx + 1]), <<>>)
              ELSE R(g, rng, Completed(Unwrap(g.ret)), <<>>)
         ELSE ReplayNext(purge(g), rng)
    ELSE LET n == GenNext(g.inner, rng)
             ev == <<Ev("inner", n.res)>>
         IN IF is_yielded(n.res)
            THEN R([g EXCEPT !.inner = n.g, !.buf = Append(g.buf, n.res.val)],
                   n.rng, Yielded(n.res.val), ev)
            ELSE R([g EXCEPT !.inner = n.g, !.ret = SomeV(n.res.val)],
                   n.rng, Completed(n.res.val), ev)

\* ReplayNext that replays while the remaining count is >= 0 instead of > 0
ReplayNextOffByOne(g, rng) ==
    IF IsSome(g.ret)
    THEN IF (IF IsSome(g.rem) THEN Unwrap(g.rem) >= 0 ELSE TRUE)
         THEN IF g.idx < Len(g.buf)
              THEN R([g EXCEPT !.idx = g.idx + 1], rng, Yielded(g.buf[g.idx + 1]), <<>>)
              ELSE R([g EXCEPT !.idx = 0], rng, Completed(Unwrap(g.ret)), <<>>)
         ELSE ReplayNext(purge(g), rng)
    ELSE LET n == GenNext(g.inner, rng)
             ev == <<Ev("inner", n.res)>>
         IN IF is_yielded(n.res)
            THEN R([g EXCEPT !.inner = n.g, !.buf = Append(g.buf, n.res.val)],
                   n.rng, Yielded(n.res.val), ev)
            ELSE R([g EXCEPT !.inner = n.g, !.ret = SomeV(n.res.val)],
                   n.rng, Completed(n.res.val), ev)

ReplayNext(g, rng) ==
    IF IsSome(g.ret)
    THEN LET rem == g.rem
         IN IF (IF IsSome(rem) THEN Unwrap(rem) > 0 ELSE TRUE)
            THEN IF g.idx < Len(g.buf)
                 THEN R([g EXCEPT !.idx = g.idx + 1], rng, Yielded(g.buf[g.idx + 1]), <<>>)
                 ELSE R([g EXCEPT !.idx = 0], rng, Completed(Unwrap(g.ret)), <<>>)
            ELSE ReplayNext(purge(g), rng)
    ELSE LET n == GenNext(g.inner, rng)
             ev == <<Ev("inner", n.res)>>
         IN IF is_yielded(n.res)
            THEN R([g EXCEPT !.inner = n.g, !.buf = Append(g.buf, n.res.val)],
                   n.rng, Yielded(n.res.val), ev)
            ELSE R([g EXCEPT !.inner = n.g, !.ret = SomeV(n.res.val)],
                   n.rng, Completed(n.res.val), ev)

\* ------------------------------------------------------------------ chain
chain(gs) == [kind |-> "Chain", inners |-> gs, idx |-> 0, completed |-> <<>>]

RECURSIVE ChainNext(_, _)
\* ChainNext that pushes each return on the front of `completed`
ChainNextPushFront(g, rng) ==
    IF g.idx = Len(g.inners)
    THEN R([g EXCEPT !.completed = <<>>, !.idx = 0], rng, Completed(VecV(g.completed)), <<>>)
    ELSE LET n == GenNext(g.inners[g.idx + 1], rng)
             ev == <<EvAt("inners", g.idx, n.res)>>
         IN IF is_yielded(n.res)
            THEN R([g EXCEPT !.inners[g.idx + 1] = n.g], n.rng, Yielded(n.res.val), ev)
            ELSE Prepend(ev, ChainNext([g EXCEPT !.inners[g.idx + 1] = n.g,
                                                 !.idx = g.idx + 1,
                                                 !.completed = <<n.res.val>> \o g.completed],
                                       n.rng))

ChainNext(g, rng) ==
    IF g.idx = Len(g.inners)
    THEN R([g EXCEPT !.completed = <<>>, !.idx = 0], rng, Completed(VecV(g.completed)), <<>>)
    ELSE LET n == GenNext(g.inners[g.idx + 1], rng)
             ev == <<EvAt("inners", g.idx, n.res)>>
         IN IF is_yielded(n.res)
            THEN R([g EXCEPT !.inners[g.idx + 1] = n.g], n.rng, Yielded(n.res.val), ev)
            ELSE Prepend(ev, ChainNext([g EXCEPT !.inners[g.idx + 1] = n.g,
                                                 !.idx = g.idx + 1,
                                                 !.completed = Append(g.completed, n.res.val)],
                                       n.rng))

\* ------------------------------------------------------------------ shared
\* GeneratorExt::shared: the producer behind a shared handle; same_as: an
\* observer of the handle; object: the composition of the fields of a
\* record in declaration order, which holds the cell of the handle
shared(g) == [kind |-> "Shared", inner |-> g]
same_as == [kind |-> "SameAs"]
object(gs) == [kind |-> "Object", inners |-> gs, idx |-> 0, completed |-> <<>>, cell |-> NoneV]

\* A step of the producer on its own
SharedNext(g, rng) ==
    LET n == GenNext(g.inner, rng)
    IN R([g EXCEPT !.inner = n.g], n.rng, n.res, <<Ev("inner", n.res)>>)

\* An observer away from its handle has nothing to read
SameAsNext(g, rng) == R(g, rng, Completed(NoneV), <<>>)

RECURSIVE ObjectNext(_, _)
\* ObjectNext in which an observer steps the producer instead of reading
\* the cell
ObjectNextObserverSteps(g, rng) ==
    IF g.idx = Len(g.inners)
    THEN R([g EXCEPT !.completed = <<>>, !.idx = 0], rng, Completed(VecV(g.completed)), <<>>)
    ELSE LET field == g.inners[g.idx + 1]
         IN IF field.kind = "SameAs"
            THEN LET p == CHOOSE i \in 1..Len(g.inners) : g.inners[i].kind = "Shared"
                     n == GenComplete(g.inners[p], rng, << >>, << >>, MaxFuel)
                 IN Prepend(<<EvAt("inners", p - 1, Completed(n.ret))>>,
                            ObjectNext([g EXCEPT !.inners[p] = n.g,
                                                 !.idx = g.idx + 1,
                                                 !.completed = Append(g.completed, n.ret)],
                                       n.rng))
            ELSE LET n == GenNext(field, rng)
                     ev == <<EvAt("inners", g.idx, n.res)>>
                     c == IF field.kind = "Shared" THEN SomeV(n.res.val) ELSE g.cell
                 IN IF is_yielded(n.res)
                    THEN R([g EXCEPT !.inners[g.idx + 1] = n.g, !.cell = c],
                           n.rng, Yielded(n.res.val), ev)
                    ELSE Prepend(ev, ObjectNext([g EXCEPT !.inners[g.idx + 1] = n.g,
                                                          !.cell = c,
                                                          !.idx = g.idx + 1,
                                                          !.completed = Append(g.completed, n.res.val)],
                                                n.rng))

\* A step of a record: the fields are stepped in order, their yields passed
\* through and their returns collected; every step of the producer writes
\* what it emitted into the cell, and an observer returns what it reads
\* there, stepping nothing.
ObjectNext(g, rng) ==
    IF g.idx = Len(g.inners)
    THEN R([g EXCEPT !.completed = <<>>, !.idx = 0], rng, Completed(VecV(g.completed)), <<>>)
    ELSE LET field == g.inners[g.idx + 1]
         IN IF field.kind = "SameAs"
            THEN LET v == IF IsSome(g.cell) THEN Unwrap(g.cell) ELSE NoneV
                 IN Prepend(<<EvAt("cell", g.idx, Completed(v))>>,
                            ObjectNext([g EXCEPT !.idx = g.idx + 1,
                                                 !.completed = Append(g.completed, v)],
                                       rng))
            ELSE LET n == GenNext(field, rng)
                     ev == <<EvAt("inners", g.idx, n.res)>>
                     c == IF field.kind = "Shared" THEN SomeV(n.res.val) ELSE g.cell
                 IN IF is_yielded(n.res)
                    THEN R([g EXCEPT !.inners[g.idx + 1] = n.g, !.cell = c],
                           n.rng, Yielded(n.res.val), ev)
                    ELSE Prepend(ev, ObjectNext([g EXCEPT !.inners[g.idx + 1] = n.g,
                                                          !.cell = c,
                                                          !.idx = g.idx + 1,
                                                          !.completed = Append(g.completed, n.res.val)],
                                                n.rng))

\* ------------------------------------------------------------------ one_of
one_of(gs) == [kind |-> "OneOf", inners |-> gs, cursor |-> NoneV]

\* Vec::remove(idx) and Vec::insert(idx, x), idx counted from 0
VecRemove(s, idx) == [i \in 1..(Len(s) - 1) |-> IF i <= idx THEN s[i] ELSE s[i + 1]]
VecInsert(s, idx, x) ==
    [i \in 1..(Len(s) + 1) |-> IF i <= idx THEN s[i] ELSE IF i = idx + 1 THEN x ELSE s[i - 1]]
\* rng.gen_range(0..n)
RngGenRange(rng, n) == LET d == RngDraw(rng) IN [val |-> d.val % n, rng |-> d.rng]

RECURSIVE OneOfNext(_, _)
\* OneOfNext that hands the picked generator's return over as it is
OneOfNextNoSome(g, rng) ==
    IF IsSome(g.cursor)
    THEN LET idx == Unwrap(g.cursor)[1]
             picked == Unwrap(g.cursor)[2]
             n == GenNext(picked, rng)
             ev == <<EvAt("picked", idx, n.res)>>
         IN IF is_complete(n.res)
            THEN R([g EXCEPT !.cursor = NoneV, !.inners = VecInsert(g.inners, idx, n.g)],
                   n.rng, n.res, ev)
            ELSE R([g EXCEPT !.cursor = SomeV(<<idx, n.g>>)], n.rng, n.res, ev)
    ELSE IF Len(g.inners) = 0
         THEN R(g, rng, Completed(NoneV), <<>>)
         ELSE LET d == RngGenRange(rng, Len(g.inners))
              IN Prepend(<<Ev("rng", Yielded(IntV(d.val)))>>,
                         OneOfNext([g EXCEPT !.cursor = SomeV(<<d.val, g.inners[d.val + 1]>>),
                                             !.inners = VecRemove(g.inners, d.val)],
                                   d.rng))

\* OneOfNext that puts the picked generator back at the end of the list
OneOfNextPushBack(g, rng) ==
    IF IsSome(g.cursor)
    THEN LET idx == Unwrap(g.cursor)[1]
             picked == Unwrap(g.cursor)[2]
             n == GenNext(picked, rng)
             ev == <<EvAt("picked", idx, n.res)>>
         IN IF is_complete(n.res)
            THEN R([g EXCEPT !.cursor = NoneV, !.inners = Append(g.inners, n.g)],
                   n.rng, map_complete_some(n.res), ev)
            ELSE R([g EXCEPT !.cursor = SomeV(<<idx, n.g>>)], n.rng,
                   map_complete_some(n.res), ev)
    ELSE IF Len(g.inners) = 0
         THEN R(g, rng, Completed(NoneV), <<>>)
         ELSE LET d == RngGenRange(rng, Len(g.inners))
              IN Prepend(<<Ev("rng", Yielded(IntV(d.val)))>>,
                         OneOfNext([g EXCEPT !.cursor = SomeV(<<d.val, g.inners[d.val + 1]>>),
                                             !.inners = VecRemove(g.inners, d.val)],
                                   d.rng))

OneOfNext(g, rng) ==
    IF IsSome(g.cursor)
    THEN LET idx == Unwrap(g.cursor)[1]
             picked == Unwrap(g.cursor)[2]
             n == GenNext(picked, rng)
             ev == <<EvAt("picked", idx, n.res)>>
         IN IF is_complete(n.res)
            THEN R([g EXCEPT !.cursor = NoneV, !.inners = VecInsert(g.inners, idx, n.g)],
                   n.rng, map_complete_some(n.res), ev)
            ELSE R([g EXCEPT !.cursor = SomeV(<<idx, n.g>>)], n.rng,
                   map_complete_some(n.res), ev)
    ELSE IF Len(g.inners) = 0
         THEN R(g, rng, Completed(NoneV), <<>>)
         ELSE LET d == RngGenRange(rng, Len(g.inners))
              IN Prepend(<<Ev("rng", Yielded(IntV(d.val)))>>,
                         OneOfNext([g EXCEPT !.cursor = SomeV(<<d.val, g.inners[d.val + 1]>>),
                                             !.inners = VecRemove(g.inners, d.val)],
                                   d.rng))

\* ------------------------------------------------------------------ maybe
maybe(g) == [kind |-> "Maybe", inner |-> g, include |-> FALSE]

\* rng.gen::<bool>()
RngGenBool(rng) == LET d == RngDraw(rng) IN [val |-> d.val % 2 = 1, rng |-> d.rng]

RECURSIVE MaybeNext(_, _)
\* MaybeNext that forgets the coin after every step of the inner generator
MaybeNextRedraw(g, rng) ==
    IF g.include
    THEN LET n == GenNext(g.inner, rng)
             ev == <<Ev("inner", n.res)>>
         IN R([g EXCEPT !.inner = n.g, !.include = FALSE],
              n.rng, map_complete_some(n.res), ev)
    ELSE LET d == RngGenBool(rng)
             ev == <<Ev("rng", Yielded(<<"bool", d.val>>))>>
         IN IF d.val
            THEN Prepend(ev, MaybeNext([g EXCEPT !.include = TRUE], d.rng))
            ELSE R(g, d.rng, Completed(NoneV), ev)

MaybeNext(g, rng) ==
    IF g.include
    THEN LET n == GenNext(g.inner, rng)
             ev == <<Ev("inner", n.res)>>
         IN R([g EXCEPT !.inner = n.g,
                        !.include = IF is_complete(n.res) THEN FALSE ELSE g.include],
              n.rng, map_complete_some(n.res), ev)
    ELSE LET d == RngGenBool(rng)
             ev == <<Ev("rng", Yielded(<<"bool", d.val>>))>>
         IN IF d.val
            THEN Prepend(ev, MaybeNext([g EXCEPT !.include = TRUE], d.rng))
            ELSE R(g, d.rng, Completed(NoneV), ev)

\* ------------------------------------------------------------------ exhaust
exhaust(g) == [kind |-> "Exhaust", inner |-> g]

\* ExhaustNext that steps the inner generator once and returns what it gave
ExhaustNextOneStep(g, rng) ==
    LET n == GenNext(g.inner, rng)
    IN R([g EXCEPT !.inner = n.g], n.rng, Completed(n.res.val), <<Ev("inner", n.res)>>)

\* Exhaust::next: one call of inner.complete; the log lists the steps that
\* call took.
ExhaustNext(g, rng) ==
    LET c == GenComplete(g.inner, rng, << >>, << >>, MaxFuel)
    IN R([g EXCEPT !.inner = c.g], c.rng, Completed(c.ret),
         [i \in 1..Len(c.seen) |-> Ev("inner", c.seen[i])])

\* ------------------------------------------------------------------ peekable
peekable(g) == [kind |-> "Peek", inner |-> g, buffer |-> << >>]

\* PeekNext that pops the back of the buffer
PeekNextPopBack(g, rng) ==
    IF g.buffer # << >>
    THEN R([g EXCEPT !.buffer = SubSeq(g.buffer, 1, Len(g.buffer) - 1)], rng,
           g.buffer[Len(g.buffer)], << >>)
    ELSE LET n == GenNext(g.inner, rng)
         IN R([g EXCEPT !.inner = n.g], n.rng, n.res, <<Ev("inner", n.res)>>)

\* Generator::next of Peek: pop the front of the buffer, or step the inner
\* generator when the buffer is empty
PeekNext(g, rng) ==
    IF g.buffer # << >>
    THEN R([g EXCEPT !.buffer = Tail(g.buffer)], rng, Head(g.buffer), << >>)
    ELSE LET n == GenNext(g.inner, rng)
         IN R([g EXCEPT !.inner = n.g], n.rng, n.res, <<Ev("inner", n.res)>>)

\* PeekableGenerator::peek: step the inner generator, push the result on the
\* back of the buffer and return (a reference to) the back
PeekPeek(g, rng) ==
    LET n == GenNext(g.inner, rng)
        buf == Append(g.buffer, n.res)
    IN R([g EXCEPT !.inner = n.g, !.buffer = buf], n.rng, buf[Len(buf)],
         <<Ev("inner", n.res)>>)

\* PeekPeekNext that steps the inner generator whatever the buffer holds
PeekPeekNextAlways(g, rng) ==
    LET n == GenNext(g.inner, rng)
        buf == Append(g.buffer, n.res)
    IN R([g EXCEPT !.inner = n.g, !.buffer = buf], n.rng, Head(buf),
         <<Ev("inner", n.res)>>)

\* PeekableGenerator::peek_next: fill the buffer with one step of the inner
\* generator when it is empty, and return (a reference to) the front
PeekPeekNext(g, rng) ==
    IF g.buffer = << >>
    THEN LET n == GenNext(g.inner, rng)
             buf == Append(g.buffer, n.res)
         IN R([g EXCEPT !.inner = n.g, !.buffer = buf], n.rng, Head(buf),
              <<Ev("inner", n.res)>>)
    ELSE R(g, rng, Head(g.buffer), << >>)

\* ------------------------------------------------------------------ map
\* The closures handed to map_yielded and map_complete, by name: the
\* `value - 42` of tests::map and tests::intercept, and Some
MapClosures == {"sub", "some"}
ApplyMap(f, v) ==
    IF f = "sub" /\ v[1] = "int" THEN IntV(v[2] - 42) ELSE SomeV(v)

map_complete(g, f) == [kind |-> "MapComplete", inner |-> g, closure |-> f]
map_yielded(g, f) == [kind |-> "MapYielded", inner |-> g, closure |-> f]

\* MapComplete::next: self.inner.next(rng).map_complete(closure)
MapCompleteNext(g, rng) ==
    LET n == GenNext(g.inner, rng)
    IN R([g EXCEPT !.inner = n.g], n.rng,
         IF is_complete(n.res) THEN Completed(ApplyMap(g.closure, n.res.val)) ELSE n.res,
         <<Ev("inner", n.res)>>)

\* MapYielded::next that hands the closure the returns as well
MapYieldedNextBoth(g, rng) ==
    LET n == GenNext(g.inner, rng)
    IN R([g EXCEPT !.inner = n.g], n.rng,
         [n.res EXCEPT !.val = ApplyMap(g.closure, n.res.val)],
         <<Ev("inner", n.res)>>)

\* MapYielded::next: self.inner.next(rng).map_yielded(closure)
MapYieldedNext(g, rng) ==
    LET n == GenNext(g.inner, rng)
    IN R([g EXCEPT !.inner = n.g], n.rng,
         IF is_yielded(n.res) THEN Yielded(ApplyMap(g.closure, n.res.val)) ELSE n.res,
         <<Ev("inner", n.res)>>)

\* ------------------------------------------------------------------ dispatch
\* Generator::next of a generator graph: one `next` per node kind.
GenNext(g, rng) ==
    CASE g.kind = "Yield" -> YieldNext(g, rng)
      [] g.kind = "Complete" -> CompleteNext(g, rng)
      [] g.kind = "Random" -> RandomNext(g, rng)
      [] g.kind = "Once" -> OnceNext(g, rng)
      [] g.kind = "AndThen" -> AndThenNext(g, rng)
      [] g.kind = "Concatenate" -> ConcatenateNext(g, rng)
      [] g.kind = "Brace" -> BraceNext(g, rng)
      [] g.kind = "Aggregate" -> AggregateNext(g, rng)
      [] g.kind = "Repeat" -> RepeatNext(g, rng)
      [] g.kind = "Replay" -> ReplayNext(g, rng)
      [] g.kind = "Chain" -> ChainNext(g, rng)
      [] g.kind = "OneOf" -> OneOfNext(g, rng)
      [] g.kind = "Maybe" -> MaybeNext(g, rng)
      [] g.kind = "Exhaust" -> ExhaustNext(g, rng)
      [] g.kind = "Peek" -> PeekNext(g, rng)
      [] g.kind = "Shared" -> SharedNext(g, rng)
      [] g.kind = "SameAs" -> SameAsNext(g, rng)
      [] g.kind = "Object" -> ObjectNext(g, rng)
      [] g.kind = "MapComplete" -> MapCompleteNext(g, rng)
      [] g.kind = "MapYielded" -> MapYieldedNext(g, rng)

\* Generator::complete: step until Complete and return its payload.  `seen`
\* collects (ghost) every result the loop looked at, the discarded yields
\* included; the loop is given up (done = FALSE) when the fuel runs out.
GenComplete(g, rng, seen, log, fuel) ==
    IF fuel = 0
    THEN [g |-> g, rng |-> rng, done |-> FALSE, seen |-> seen, log |-> log]
    ELSE LET n == GenNext(g, rng)
         IN IF is_complete(n.res)
            THEN [g |-> n.g, rng |-> n.rng, done |-> TRUE, ret |-> n.res.val,
                  seen |-> Append(seen, n.res), log |-> log \o n.log]
            ELSE GenComplete(n.g, n.rng, Append(seen, n.res), log \o n.log, fuel - 1)

\* ------------------------------------------------------------------ into_iterator
\* Iterable { inner, rng, output }: the generator seen as a std Iterator;
\* `output` holds the return value of a completed round until restart
\* takes it
into_iterator(g) == [kind |-> "Iterable", inner |-> g, output |-> NoneV]

\* Iterable::next that steps the generator whatever `output` holds
IterableNextAlwaysSteps(it, rng) ==
    LET n == GenNext(it.inner, rng)
    IN IF is_yielded(n.res)
       THEN [it |-> [it EXCEPT !.inner = n.g], rng |-> n.rng,
             ret |-> SomeV(n.res.val), seen |-> <<n.res>>]
       ELSE [it |-> [it EXCEPT !.inner = n.g, !.output = SomeV(n.res.val)], rng |-> n.rng,
             ret |-> NoneV, seen |-> <<n.res>>]

\* <Iterable as Iterator>::next: with no output stored, one step of the
\* generator, Some(y) for a yield, None for a completion whose value is
\* stored; with an output stored, None and nothing else.  `seen` collects
\* (ghost) the step results the call looked at.
IterableNext(it, rng) ==
    IF IsNone(it.output)
    THEN LET n == GenNext(it.inner, rng)
         IN IF is_yielded(n.res)
            THEN [it |-> [it EXCEPT !.inner = n.g], rng |-> n.rng,
                  ret |-> SomeV(n.res.val), seen |-> <<n.res>>]
            ELSE [it |-> [it EXCEPT !.inner = n.g, !.output = SomeV(n.res.val)], rng |-> n.rng,
                  ret |-> NoneV, seen |-> <<n.res>>]
    ELSE [it |-> it, rng |-> rng, ret |-> NoneV, seen |-> << >>]

\* Iterable::restart: the stored output is taken (mem::replace with None)
\* and returned; with none stored, next is called until it returns None and
\* restart is entered again.  The loop is given up (done = FALSE) when the
\* fuel runs out.
RECURSIVE IterableRestart(_, _, _, _)
IterableRestart(it, rng, seen, fuel) ==
    IF IsSome(it.output)
    THEN [it |-> [it EXCEPT !.output = NoneV], rng |-> rng, done |-> TRUE,
          ret |-> Unwrap(it.output), seen |-> seen]
    ELSE IF fuel = 0
         THEN [it |-> it, rng |-> rng, done |-> FALSE, seen |-> seen]
         ELSE LET n == IterableNext(it, rng)
              IN IterableRestart(n.it, n.rng, seen \o n.seen, fuel - 1)

\* ------------------------------------------------------------------ reading a run
\* The values yielded in a sequence of results, in order
YieldsOf(tr) == LET ys == SelectSeq(tr, is_yielded) IN [i \in 1..Len(ys) |-> ys[i].val]
\* The entries of a call log that are calls on the child `who`
CallsOn(l, who) == SelectSeq(l, LAMBDA e : e.who = who)
CompletesOn(l, who) == SelectSeq(l, LAMBDA e : e.who = who /\ is_complete(e.res))
\* One round of g driven on its own from (g, rng)
RoundOf(g, rng) == GenComplete(g, rng, << >>, << >>, MaxFuel)
\* k rounds of g driven on its own, one after the other: what they yield,
\* what they return, and the generator and RNG they leave
RECURSIVE RoundsOf(_, _, _)
RoundsOf(g, rng, k) ==
    IF k = 0
    THEN [g |-> g, rng |-> rng, ys |-> << >>, rets |-> << >>, vecs |-> << >>]
    ELSE LET a == RoundOf(g, rng)
             b == RoundsOf(a.g, a.rng, k - 1)
         IN [g |-> b.g, rng |-> b.rng,
             ys |-> YieldsOf(a.seen) \o b.ys,
             rets |-> <<a.ret>> \o b.rets,
             vecs |-> <<VecV(YieldsOf(a.seen))>> \o b.vecs]
\* One round of each generator of gs driven on its own, in index order
RECURSIVE RoundsInOrder(_, _)
RoundsInOrder(gs, rng) ==
    IF gs = << >>
    THEN [gs |-> << >>, rng |-> rng, ys |-> << >>, rets |-> << >>, lens |-> << >>]
    ELSE LET a == RoundOf(Head(gs), rng)
             b == RoundsInOrder(Tail(gs), a.rng)
         IN [gs |-> <<a.g>> \o b.gs, rng |-> b.rng,
             ys |-> YieldsOf(a.seen) \o b.ys,
             rets |-> <<a.ret>> \o b.rets,
             lens |-> <<Len(a.seen)>> \o b.lens]
\* The results of the first n steps of g driven on its own from (g, rng)
RECURSIVE RunSteps(_, _, _)
RunSteps(g, rng, n) ==
    IF n = 0
    THEN [g |-> g, rng |-> rng, seq |-> << >>]
    ELSE LET a == GenNext(g, rng)
             b == RunSteps(a.g, a.rng, n - 1)
         IN [g |-> b.g, rng |-> b.rng, seq |-> <<a.res>> \o b.seq]
\* ------------------------------------------------------------------ subjects
MaxLen == 2         \* largest count handed to repeat and replay
MaxSteps == 4       \* calls a run makes on a peekable

\* tests::prime(42) and Just<C> = Once<Yield<C, Never>>
Just(c) == once(YieldWrap(c))

\* Finite generators the combinators are built over: they differ in the
\* number of values they yield in a round (none, one, several, a number
\* that depends on the RNG) and in what they return.
Fin ==
    << Just(IntV(42)),
       once(Random),
       CompleteWrap(IntV(1)),
       repeat(once(Random), 2),
       maybe(once(Random)) >>

\* Generators that never complete (Return = Never)
Inf == << YieldWrap(IntV(42)), Random >>

\* Index arithmetic for enumerating pairs (x, y) by one index i, x ranging
\* over 1..n
Fst(i, n) == ((i - 1) % n) + 1
Snd(i, n) == (i - 1) \div n

OnceSubjects == [i \in 1..Len(Inf) |-> once(Inf[i])]
AndThenSubjects ==
    << and_then(Just(IntV(42)), "just_sub"),
       and_then(once(Random), "just_sub"),
       and_then(once(Random), "draws"),
       and_then(CompleteWrap(IntV(1)), "draws"),
       and_then(CompleteWrap(IntV(1)), "wrap"),
       and_then(repeat(once(Random), 2), "wrap"),
       and_then(maybe(once(Random)), "wrap") >>
\* (g.and_then(f)).and_then(h) and g.and_then(|x| f(x).and_then(h)), for
\* finite g and closures that fit the value they are given
AssocLeft(g, c) == and_then(and_then(g, Composed[c][1]), Composed[c][2])
AssocRight(g, c) == and_then(g, c)
AssocCases ==
    << <<Just(IntV(42)), "just_sub.just_sub">>,
       <<once(Random), "just_sub.wrap">>,
       <<once(Random), "wrap.just_sub">>,
       <<once(Random), "wrap.draws">>,
       <<repeat(once(Random), 2), "wrap.wrap">>,
       <<CompleteWrap(IntV(1)), "draws.wrap">> >>
AssocSubjects ==
    [i \in 1..Len(AssocCases) |-> AssocLeft(AssocCases[i][1], AssocCases[i][2])]
    \o [i \in 1..Len(AssocCases) |-> AssocRight(AssocCases[i][1], AssocCases[i][2])]
ConcatenateSubjects ==
    [i \in 1..(Len(Fin) * Len(Fin)) |->
        concatenate(Fin[Fst(i, Len(Fin))], Fin[Snd(i, Len(Fin)) + 1])]
BraceSubjects ==
    << brace(Just(IntV(42)), Just(IntV(-42)), Just(IntV(84))),
       brace(once(Random), maybe(once(Random)), CompleteWrap(IntV(1))),
       prefix(once(Random), once(Random)),
       suffix(repeat(once(Random), 2), once(Random)) >>
AggregateSubjects ==
    [i \in 1..Len(Fin) |-> aggregate(Fin[i])] \o << aggregate(repeat(Just(IntV(42)), 5)) >>
RepeatSubjects ==
    [i \in 1..(Len(Fin) * (MaxLen + 1)) |-> repeat(Fin[Fst(i, Len(Fin))], Snd(i, Len(Fin)))]
RepeatAggregateSubjects ==
    [i \in 1..(Len(Fin) * (MaxLen + 1)) |->
        repeat(aggregate(Fin[Fst(i, Len(Fin))]), Snd(i, Len(Fin)))]
ReplaySubjects ==
    [i \in 1..(Len(Fin) * (MaxLen + 1)) |-> replay(Fin[Fst(i, Len(Fin))], Snd(i, Len(Fin)))]
ChainSubjects ==
    << chain(<< >>),
       chain(<< once(Random) >>),
       chain(<< once(Random), once(Random) >>),
       chain(<< maybe(once(Random)), maybe(once(Random)), maybe(once(Random)) >>) >>
OneOfSubjects ==
    << one_of(<< >>),
       one_of(<< Just(IntV(42)) >>),
       one_of(<< Just(IntV(1)), Just(IntV(2)) >>),
       one_of(<< repeat(once(Random), 1), repeat(once(Random), 2) >>) >>
MaybeSubjects == [i \in 1..Len(Fin) |-> maybe(Fin[i])]

ExhaustSubjects ==
    [i \in 1..Len(Fin) |-> exhaust(Fin[i])] \o << exhaust(concatenate(Fin[4], Fin[5])) >>
\* Records with a field behind a shared handle and fields that are
\* same_as it, the producer compiled before its observers
SharedSubjects ==
    << object(<< shared(once(Random)), same_as >>),
       object(<< shared(once(Random)), same_as, same_as >>),
       object(<< once(Random), shared(once(Random)), same_as >>),
       object(<< shared(repeat(once(Random), 2)), same_as >>) >>
PeekSubjects ==
    << peekable(Random),
       peekable(once(Random)),
       peekable(repeat(once(Random), 2)),
       peekable(maybe(once(Random))) >>

\* tests::map and tests::intercept, and maps over rounds of several and of
\* a drawn number of yields
MapSubjects ==
    << map_complete(Just(IntV(42)), "sub"),
       map_yielded(Just(IntV(42)), "sub"),
       map_complete(repeat(once(Random), 2), "some"),
       map_yielded(repeat(once(Random), 2), "some"),
       map_yielded(maybe(once(Random)), "sub"),
       map_complete(map_yielded(once(Random), "some"), "some") >>

Subjects ==
    OnceSubjects \o AndThenSubjects \o AssocSubjects \o ConcatenateSubjects \o BraceSubjects
    \o AggregateSubjects \o RepeatSubjects \o RepeatAggregateSubjects \o ReplaySubjects \o ChainSubjects
    \o OneOfSubjects \o MaybeSubjects \o ExhaustSubjects \o PeekSubjects \o SharedSubjects
    \o MapSubjects

\* The generators handed to into_iterator: rounds of no, one and several
\* yields, and generators that never complete
IterSubjects ==
    [i \in 1..Len(Fin) |-> into_iterator(Fin[i])]
    \o [i \in 1..Len(Inf) |-> into_iterator(Inf[i])]
    \o << into_iterator(repeat(once(Random), 1)),
          into_iterator(one_of(<<Just(IntV(1)), once(Random)>>)) >>

\* ------------------------------------------------------------------ import
MaxImports == 3     \* `synth import` commands of a run

\* The namespace paths and collection names handed to `synth import`; a
\* path is relative to the workspace root or absolute
NsPaths == {"ns1", "ns2"}
Colls == {"c1", "c2"}
ImportPaths == [abs : BOOLEAN, ns : NsPaths]
\* What the import strategy gives: an error, or the collections of the
\* imported namespace (import) and the content of one (import_collection)
Strategies == {[tag |-> "Err", colls |-> {}]} \cup {[tag |-> "Ok", colls |-> cs] : cs \in SUBSET Colls}

\* Store: a namespace is on disk or not, and holds for each collection the
\* number of the command that saved it (0: no such collection)
ns_exists(st, path) == st[path.ns].exists
collection_exists(st, path, collection) ==
    st[path.ns].exists /\ st[path.ns].colls[collection] # 0
save_collection_path(st, path, collection, id) ==
    [st EXCEPT ![path.ns] = [exists |-> TRUE, colls |-> [@.colls EXCEPT ![collection] = id]]]
save_ns_path(st, path, cs, id) ==
    [st EXCEPT ![path.ns] = [exists |-> TRUE,
                             colls |-> [c \in Colls |-> IF c \in cs THEN id ELSE 0]]]

\* Cli::import that saves a namespace whether or not one exists
importOverExisting(ws, st, path, collection, strat, id) ==
    IF ~ws
    THEN [tag |-> "Err", val |-> "Workspace has not been initialised", store |-> st]
    ELSE IF path.abs
    THEN [tag |-> "Err", val |-> "The namespace path is absolute", store |-> st]
    ELSE IF IsSome(collection)
    THEN IF collection_exists(st, path, Unwrap(collection))
         THEN [tag |-> "Err", val |-> "The collection already exists", store |-> st]
         ELSE IF strat.tag = "Err"
              THEN [tag |-> "Err", val |-> "import", store |-> st]
              ELSE [tag |-> "Ok", val |-> "",
                    store |-> save_collection_path(st, path, Unwrap(collection), id)]
    ELSE IF strat.tag = "Err"
         THEN [tag |-> "Err", val |-> "import", store |-> st]
         ELSE [tag |-> "Ok", val |-> "", store |-> save_ns_path(st, path, strat.colls, id)]

\* Cli::import: the workspace must be initialised and the path relative;
\* with a collection named, it must not exist and is imported and saved
\* into the namespace; with none, the namespace must not exist and is
\* imported and saved.  A failure of the strategy or of the save returns
\* through `?`.
import(ws, st, path, collection, strat, id) ==
    IF ~ws
    THEN [tag |-> "Err", val |-> "Workspace has not been initialised", store |-> st]
    ELSE IF path.abs
    THEN [tag |-> "Err", val |-> "The namespace path is absolute", store |-> st]
    ELSE IF IsSome(collection)
    THEN IF collection_exists(st, path, Unwrap(collection))
         THEN [tag |-> "Err", val |-> "The collection already exists", store |-> st]
         ELSE IF strat.tag = "Err"
              THEN [tag |-> "Err", val |-> "import", store |-> st]
              ELSE [tag |-> "Ok", val |-> "",
                    store |-> save_collection_path(st, path, Unwrap(collection), id)]
    ELSE IF ns_exists(st, path)
    THEN [tag |-> "Err", val |-> "The namespace already exists", store |-> st]
    ELSE IF strat.tag = "Err"
         THEN [tag |-> "Err", val |-> "import", store |-> st]
         ELSE [tag |-> "Ok", val |-> "", store |-> save_ns_path(st, path, strat.colls, id)]

\* ------------------------------------------------------------------ sampler values
MaxTarget == 3      \* largest target handed to the sampler
MaxArr == 2         \* longest array a collection generates in one round
MaxFreq == 3        \* largest frequency of a bool node, in halves

\* The collections of the two-collection namespace, and their BTreeMap key
\* order
Names == <<"a", "b">>
NameSet == {Names[i] : i \in 1..Len(Names)}
\* Every key a map of the sampler may hold, in BTreeMap key order: the
\* collections of the two-collection namespace, and the collection x of
\* the one-collection namespace
Keys == <<"a", "b", "x">>
KeySet == {Keys[i] : i \in 1..Len(Keys)}
\* synth_core::Value, as far as the sampler looks into it: an array of
\* elements, or anything else, kept as the one thing it is; and the missing
\* entry of a map
ArrayV(elems) == <<"array", elems>>
ScalarV(x) == <<"scalar", <<x>>>>
BoolV(b) == <<"bool", <<b>>>>
Absent == <<"absent", << >>>>
IsArray(v) == v[1] = "array"
IsAbsent(v) == v[1] = "absent"
Elements(v) == v[2]

\* What a collection generates in a round, by its shape: an array of that
\* many elements, or (shape -1) a value that is not an array. Every
\* element carries the round and the collection that generated it.
ValueOf(shape, round, name) ==
    IF shape = -1
    THEN ScalarV(<<round, name, 0>>)
    ELSE ArrayV([i \in 1..shape |-> <<round, name, i>>])

\* model.complete(&mut rng)?: what a round of the compiled graph gives the
\* sampler. An error, a value that is not an object, or a snapshot of the
\* namespace: an object holding a value for every collection.
GraphRounds(round) ==
    {[tag |-> "Err", obj |-> << >>], [tag |-> "NonObject", obj |-> << >>]}
    \cup {[tag |-> "Object",
           obj |-> [n \in KeySet |-> IF n \in NameSet THEN ValueOf(sh[n], round, n) ELSE Absent]] :
             sh \in [NameSet -> (-1)..MaxArr]}

\* BoolContent: Frequency(p) with p given in halves (and beyond [0, 1]),
\* Constant(b), Categorical(c) with c the values of positive weight
Frequencies == (-1)..MaxFreq
BoolContents ==
    {<<"Frequency", p>> : p \in Frequencies}
    \cup {<<"Constant", b>> : b \in BOOLEAN}
    \cup {<<"Categorical", c>> : c \in (SUBSET BOOLEAN) \ {{}}}

\* BoolContent::compile that hands every frequency to the distribution
compileUnchecked(content) ==
    IF content[1] = "Frequency"
    THEN [tag |-> "Ok", val |-> "",
          graph |-> [kind |-> "Bool", fields |-> <<"Bernoulli", content[2]>>]]
    ELSE [tag |-> "Ok", val |-> "",
          graph |-> [kind |-> "Bool", fields |-> content]]

\* BoolContent::compile: Bernoulli::new(p) fails unless 0 <= p <= 1, and
\* the failure is returned as "invalid frequency"; Constant and Categorical
\* always compile. The graph is Graph::Bool of the RandomBool.
compile(content) ==
    IF content[1] = "Frequency"
    THEN IF content[2] < 0 \/ content[2] > 2
         THEN [tag |-> "Err", val |-> "invalid frequency", graph |-> << >>]
         ELSE [tag |-> "Ok", val |-> "",
               graph |-> [kind |-> "Bool", fields |-> <<"Bernoulli", content[2]>>]]
    ELSE [tag |-> "Ok", val |-> "",
          graph |-> [kind |-> "Bool", fields |-> content]]

\* BoolOutcomes that lets every node give either value
BoolOutcomesEither(node) == BOOLEAN

\* The values a compiled bool node may complete with: the constant of
\* Yield::wrap(value); either value under a Bernoulli or a categorical
\* distribution that gives both a positive probability
BoolOutcomes(node) ==
    LET how == node.fields
    IN IF how[1] = "Constant" THEN {how[2]}
       ELSE IF how[1] = "Bernoulli"
            THEN IF how[2] = 0 THEN {FALSE} ELSE IF how[2] = 2 THEN {TRUE} ELSE BOOLEAN
            ELSE how[2]

\* Graph::from_namespace for the namespace whose one collection x is a
\* bool node: the object graph with the compiled node as its field x
from_namespace(content) ==
    LET c == compile(content)
    IN IF c.tag = "Err" THEN c
       ELSE [c EXCEPT !.graph = [kind |-> "Object", fields |-> <<"x", c.graph>>]]

\* The compiled graph of the two-collection namespace
TwoCollections == [kind |-> "TwoCollections", fields |-> << >>]

\* The graphs a Sampler is made of
Graphs ==
    {TwoCollections}
    \cup {from_namespace(c).graph : c \in {d \in BoolContents : compile(d).tag = "Ok"}}

\* The collections of a graph
CollectionsOf(model) == IF model = TwoCollections THEN NameSet ELSE {model.fields[1]}

\* model.complete(&mut rng)? in round `round`
ModelComplete(model, round) ==
    IF model = TwoCollections
    THEN GraphRounds(round)
    ELSE {[tag |-> "Object",
           obj |-> [n \in KeySet |-> IF n = model.fields[1] THEN BoolV(b) ELSE Absent]] :
             b \in BoolOutcomes(model.fields[2])}

\* What a value adds to `generated`; a map has no entry for Absent
Counted(v) == IF IsArray(v) THEN Len(Elements(v)) ELSE IF IsAbsent(v) THEN 0 ELSE 1

\* NamespaceMerge that extends the entry twice with an array's elements
NamespaceMergeTwice(cur, v) ==
    IF IsArray(v)
    THEN LET entry == IF IsAbsent(cur) THEN ArrayV(<< >>) ELSE cur
         IN IF IsArray(entry)
            THEN ArrayV(Elements(entry) \o Elements(v) \o Elements(v))
            ELSE entry
    ELSE v

\* NamespaceSampleStrategy::sample, the body of for_each for one collection
\* whose entry in `out` is cur: an array extends the entry (created empty
\* when missing) if the entry is an array; anything else is inserted.
NamespaceMerge(cur, v) ==
    IF IsArray(v)
    THEN LET entry == IF IsAbsent(cur) THEN ArrayV(<< >>) ELSE cur
         IN IF IsArray(entry) THEN ArrayV(Elements(entry) \o Elements(v)) ELSE entry
    ELSE v

\* CollectionMerge that puts an array's elements in front of `out`
CollectionMergeInFront(cur, v) ==
    IF IsArray(v)
    THEN IF IsArray(cur) THEN ArrayV(Elements(v) \o Elements(cur)) ELSE cur
    ELSE v

\* CollectionMerge in which an array becomes `out`
CollectionMergeReplace(cur, v) == v

\* CollectionSampleStrategy::sample, the match on collection_value: an array
\* extends `out` if `out` is an array; anything else becomes `out`.
CollectionMerge(cur, v) ==
    IF IsArray(v)
    THEN IF IsArray(cur) THEN ArrayV(Elements(cur) \o Elements(v)) ELSE cur
    ELSE v

\* Sum of what the values of an object add to `generated`
RECURSIVE CountedIn(_, _)
CountedIn(obj, k) == IF k = 0 THEN 0 ELSE CountedIn(obj, k - 1) + Counted(obj[Keys[k]])

\* OrderedOut that pushes the entries left in reverse key order
RECURSIVE OrderedOutReversed(_, _, _)
OrderedOutReversed(o, order, acc) ==
    IF order # << >>
    THEN LET name == Head(order)
         IN IF IsAbsent(o[name])
            THEN [tag |-> "Panic", val |-> << >>]
            ELSE OrderedOutReversed([o EXCEPT ![name] = Absent], Tail(order),
                                    Append(acc, <<name, o[name]>>))
    ELSE LET left == SelectSeq(Keys, LAMBDA n : ~IsAbsent(o[n]))
         IN [tag |-> "Ok",
             val |-> acc \o [i \in 1..Len(left) |->
                                <<left[Len(left) + 1 - i], o[left[Len(left) + 1 - i]]>>]]

\* The tail of NamespaceSampleStrategy::sample: the entries of `out` named
\* by `order` are removed and pushed in that order (unwrap panics on a
\* missing one), then the entries left, in key order.
RECURSIVE OrderedOut(_, _, _)
OrderedOut(o, order, acc) ==
    IF order # << >>
    THEN LET name == Head(order)
         IN IF IsAbsent(o[name])
            THEN [tag |-> "Panic", val |-> << >>]
            ELSE OrderedOut([o EXCEPT ![name] = Absent], Tail(order),
                            Append(acc, <<name, o[name]>>))
    ELSE LET left == SelectSeq(Keys, LAMBDA n : ~IsAbsent(o[n]))
         IN [tag |-> "Ok", val |-> acc \o [i \in 1..Len(left) |-> <<left[i], o[left[i]]>>]]

\* SamplerOutput::into_json. Namespace(key_values): the pairs are collected
\* into Value::Object, a BTreeMap<String, Value> (as_object), whose entries
\* come out in key order, a later pair of the same key replacing an earlier
\* one; Collection(_, value): the value. `name` is None for Namespace.
into_json(name, val) ==
    IF IsNone(name)
    THEN LET keys == SelectSeq(Keys, LAMBDA n : \E k \in 1..Len(val) : val[k][1] = n)
             at(n) == CHOOSE k \in 1..Len(val) :
                         /\ val[k][1] = n
                         /\ \A j \in (k + 1)..Len(val) : val[j][1] # n
         IN <<"object", [i \in 1..Len(keys) |-> <<keys[i], val[at(keys[i])][2]>>]>>
    ELSE <<"value", val>>

\* ------------------------------------------------------------------ cli
MaxSeed == 24       \* largest seed given or drawn (u64 in the source)

\* The seeds a caller may give with --seed: none, or one
SeedArgs == {NoneV} \cup {SomeV(k) : k \in 0..MaxSeed}
SeedOk(k) == [tag |-> "Ok", val |-> k]
SeedErr == [tag |-> "Err", val |-> 0]

\* derive_seed that lets a given seed win over --random
derive_seed_prefers_seed(random, seed) ==
    IF IsSome(seed) THEN {SeedOk(Unwrap(seed))}
    ELSE IF random THEN {SeedOk(k) : k \in 0..MaxSeed}
    ELSE {SeedOk(0)}

\* Cli::derive_seed: what it may return. --random with a seed is an error;
\* --random alone is whatever rand::thread_rng().next_u64() gives; else
\* the seed given, or 0.
derive_seed(random, seed) ==
    IF random /\ IsSome(seed)
    THEN {SeedErr}
    ELSE IF random
         THEN {SeedOk(k) : k \in 0..MaxSeed}
         ELSE {SeedOk(IF IsSome(seed) THEN Unwrap(seed) ELSE 0)}

\* ------------------------------------------------------------------ state
VARIABLES
    gen,      \* the generator that is driven
    rng,      \* the RNG handed to every call
    op,       \* the last call: "new", "next" or "complete"
    res,      \* the GeneratorState the last call returned
    log,      \* (ghost) the calls the last call made on gen's direct children
    pre,      \* (ghost) gen and rng before the last call
    trace,    \* (ghost) the results of the current round, discarded ones included
    rlog,     \* (ghost) the calls on gen's direct children in the current round
    start,    \* (ghost) gen and rng when the current round began
    rounds,   \* (ghost) the completed rounds: trace, rlog, start and end of each
    origin,   \* (ghost) gen and rng as constructed
    calls     \* (ghost) the calls made so far on a peekable

\* The sampler: the arguments of sample_seeded, the locals of sample
VARIABLES
    graph,            \* the compiled graph of the Sampler
    collection_name,  \* None: the whole namespace; Some(name): one collection
    target,           \* the number of values asked for
    ordered,          \* the collection names of Graph::iter_ordered, in order
    generated,        \* the running count
    out,              \* the running results: per collection, or of the one selected
    pc,               \* where sample stands: "idle", "loop", "finish", "returned"
    result,           \* what sample returned
    warned,           \* (ghost) the stall warning was logged
    hist,             \* (ghost) the rounds so far: what the graph gave, and the
                      \*         count and results before and after
    run,              \* (ghost) 1, or 2 in a second run with the same arguments
    first             \* (ghost) what the first run returned, and its rounds

\* The command line of `synth generate`, as far as the seed goes
VARIABLES
    random,           \* --random
    seed,             \* --seed, if given
    derived           \* what derive_seed returned

VARIABLES
    workspace,        \* .synth/config.toml exists under the working directory
    store,            \* Cli::store: the namespaces on disk and their collections
    imported          \* the last `synth import`: its arguments and what it returned

gvars == <<gen, rng, op, res, log, pre, trace, rlog, start, rounds, origin, calls>>
svars == <<graph, collection_name, target, ordered, generated, out, pc, result, warned, hist,
           run, first>>
cvars == <<random, seed, derived, workspace, store, imported>>
vars == <<gvars, svars, cvars>>

\* The store of a workspace nothing was imported into
EmptyStore == [p \in NsPaths |-> [exists |-> FALSE, colls |-> [c \in Colls |-> 0]]]

\* The workspace while nothing is imported
ImportIdle ==
    /\ workspace = FALSE
    /\ store = EmptyStore
    /\ imported = [n |-> 0]

\* The command line while generators or the sampler run on their own
CliIdle ==
    /\ random = FALSE
    /\ seed = NoneV
    /\ derived = [tag |-> "None", val |-> 0]
    /\ ImportIdle

\* The sampler while generators are driven on their own
SamplerIdle ==
    /\ graph = TwoCollections
    /\ collection_name = NoneV
    /\ target = 0
    /\ ordered = << >>
    /\ generated = 0
    /\ out = Absent
    /\ pc = "idle"
    /\ result = [tag |-> "None", val |-> << >>]
    /\ warned = FALSE
    /\ hist = << >>
    /\ run = 1
    /\ first = [result |-> [tag |-> "None", val |-> << >>], hist |-> << >>]

Init ==
    /\ \E i \in 1..Len(Subjects) : gen = Subjects[i]
    /\ \E t \in Tapes : rng = [tape |-> t, pos |-> 0]
    /\ op = "new"
    /\ res = Yielded(UnitV)
    /\ log = << >>
    /\ pre = [g |-> gen, rng |-> rng]
    /\ trace = << >>
    /\ rlog = << >>
    /\ start = [g |-> gen, rng |-> rng]
    /\ rounds = << >>
    /\ origin = [g |-> gen, rng |-> rng]
    /\ calls = 0
    /\ SamplerIdle
    /\ CliIdle

\* The last call ended a round (or nothing was called yet)
AtBoundary == trace = << >> \/ is_complete(trace[Len(trace)])

\* Bookkeeping of a call that returned `r`, having seen the results `seen`
\* and made the calls `l`, and left the generator and RNG as g2 and rng2.
Record(name, g2, rng2, r, seen, l) ==
    LET tr == (IF AtBoundary THEN << >> ELSE trace) \o seen
        rl == (IF AtBoundary THEN << >> ELSE rlog) \o l
        st == IF AtBoundary THEN [g |-> gen, rng |-> rng] ELSE start
    IN /\ gen' = g2
       /\ rng' = rng2
       /\ op' = name
       /\ res' = r
       /\ log' = l
       /\ pre' = [g |-> gen, rng |-> rng]
       /\ trace' = tr
       /\ rlog' = rl
       /\ start' = st
       /\ rounds' = IF is_complete(r)
                    THEN Append(rounds, [trace |-> tr, rlog |-> rl, start |-> st,
                                         end |-> [g |-> g2, rng |-> rng2]])
                    ELSE rounds
       /\ calls' = IF gen.kind = "Peek" THEN calls + 1 ELSE calls
       /\ UNCHANGED <<origin, svars, cvars>>

\* Bookkeeping of a look-ahead call: it returns a reference to the result
\* `r` and hands nothing over, so the round's trace is left as it is.
RecordPeek(name, g2, rng2, r, l) ==
    /\ gen' = g2
    /\ rng' = rng2
    /\ op' = name
    /\ res' = r
    /\ log' = l
    /\ pre' = [g |-> gen, rng |-> rng]
    /\ calls' = calls + 1
    /\ UNCHANGED <<trace, rlog, start, rounds, origin, svars, cvars>>

\* gen.next(&mut rng)
DoNext ==
    /\ Len(rounds) < MaxRounds
    /\ calls < MaxSteps
    /\ LET n == GenNext(gen, rng)
       IN Record("next", n.g, n.rng, n.res, <<n.res>>, n.log)

\* gen.complete(&mut rng), from any point of a round
DoComplete ==
    /\ Len(rounds) < MaxRounds
    /\ calls < MaxSteps
    /\ LET c == GenComplete(gen, rng, << >>, << >>, MaxFuel)
       IN /\ c.done
          /\ Record("complete", c.g, c.rng, Completed(c.ret), c.seen, c.log)

\* gen.peek(&mut rng) on a peekable
DoPeek ==
    /\ gen.kind = "Peek"
    /\ calls < MaxSteps
    /\ LET n == PeekPeek(gen, rng)
       IN RecordPeek("peek", n.g, n.rng, n.res, n.log)

\* gen.peek_next(&mut rng) on a peekable
DoPeekNext ==
    /\ gen.kind = "Peek"
    /\ calls < MaxSteps
    /\ LET n == PeekPeekNext(gen, rng)
       IN RecordPeek("peek_next", n.g, n.rng, n.res, n.log)

Next == DoNext \/ DoComplete \/ DoPeek \/ DoPeekNext

Spec == Init /\ [][Next]_vars

\* ------------------------------------------------------------------ sampler
\* The generator variables while the sampler runs
GenIdle ==
    /\ gen = Subjects[1]
    /\ rng = [tape |-> [i \in 1..TapeLen |-> 0], pos |-> 0]
    /\ op = "new"
    /\ res = Yielded(UnitV)
    /\ log = << >>
    /\ pre = [g |-> gen, rng |-> rng]
    /\ trace = << >>
    /\ rlog = << >>
    /\ start = [g |-> gen, rng |-> rng]
    /\ rounds = << >>
    /\ origin = [g |-> gen, rng |-> rng]
    /\ calls = 0

\* The orders Graph::iter_ordered may give: none, or distinct collection
\* names of the namespace
Orders == {<< >>, <<"a">>, <<"b">>, <<"a", "b">>, <<"b", "a">>}
OrdersOf(model) == IF model = TwoCollections THEN Orders ELSE {<< >>, <<model.fields[1]>>}

\* Sampler::sample_seeded up to the first test of the loop; the collection
\* a caller selects is one of the namespace ("a", "x") or one it does not
\* have
SamplerInit ==
    /\ GenIdle
    /\ CliIdle
    /\ graph \in Graphs
    /\ collection_name \in {NoneV, SomeV("zz")}
                            \cup {SomeV(n) : n \in CollectionsOf(graph) \ {"b"}}
    /\ target \in 0..MaxTarget
    /\ ordered \in (IF IsNone(collection_name) THEN OrdersOf(graph) ELSE {<< >>})
    /\ generated = 0
    /\ out = IF IsNone(collection_name) THEN [n \in KeySet |-> Absent] ELSE ArrayV(<< >>)
    /\ pc = "loop"
    /\ result = [tag |-> "None", val |-> << >>]
    /\ warned = FALSE
    /\ hist = << >>
    /\ run = 1
    /\ first = [result |-> [tag |-> "None", val |-> << >>], hist |-> << >>]

\* `if round_start == generated` that never holds
StalledNever(round_start, now) == FALSE

\* `if round_start == generated`
Stalled(round_start, now) == round_start = now

\* NamespaceRound that goes on after a round that failed
NamespaceRoundSkipsError(o) ==
    IF o.tag # "Object"
    THEN [ok |-> TRUE, generated |-> generated, out |-> out]
    ELSE [ok |-> TRUE,
          generated |-> generated + CountedIn(o.obj, Len(Keys)),
          out |-> [n \in KeySet |-> IF IsAbsent(o.obj[n]) THEN out[n]
                                    ELSE NamespaceMerge(out[n], o.obj[n])]]

\* What one pass through the loop body of NamespaceSampleStrategy::sample
\* makes of (generated, out) when the graph gives `o`
NamespaceRound(o) ==
    IF o.tag # "Object"
    THEN [ok |-> FALSE, generated |-> generated, out |-> out]
    ELSE [ok |-> TRUE,
          generated |-> generated + CountedIn(o.obj, Len(Keys)),
          out |-> [n \in KeySet |-> IF IsAbsent(o.obj[n]) THEN out[n]
                                    ELSE NamespaceMerge(out[n], o.obj[n])]]

\* CollectionRound that counts the values of every collection
CollectionRoundCountsAll(o) ==
    LET name == Unwrap(collection_name)
    IN IF o.tag # "Object" \/ name \notin CollectionsOf(graph)
       THEN [ok |-> FALSE, generated |-> generated, out |-> out]
       ELSE [ok |-> TRUE,
             generated |-> generated + CountedIn(o.obj, Len(Keys)),
             out |-> CollectionMerge(out, o.obj[name])]

\* What one pass through the loop body of CollectionSampleStrategy::sample
\* makes of (generated, out) when the graph gives `o`
CollectionRound(o) ==
    LET name == Unwrap(collection_name)
    IN IF o.tag # "Object" \/ name \notin CollectionsOf(graph)
       THEN [ok |-> FALSE, generated |-> generated, out |-> out]
       ELSE [ok |-> TRUE,
             generated |-> generated + Counted(o.obj[name]),
             out |-> CollectionMerge(out, o.obj[name])]

\* model.complete(&mut rng)? with the rng of sample_seeded: StdRng::
\* seed_from_u64(seed) gives the second run the stream of the first, so
\* its round i is given what round i of the first run was given
SeededComplete(round) ==
    IF run = 2 /\ round <= Len(first.hist)
    THEN {first.hist[round].given}
    ELSE ModelComplete(graph, round)

\* One pass through `while generated < self.target { ... }`
SampleRound ==
    /\ pc = "loop"
    /\ generated < target
    /\ \E o \in SeededComplete(Len(hist) + 1) :
          LET r == IF IsNone(collection_name) THEN NamespaceRound(o) ELSE CollectionRound(o)
              stall == r.ok /\ Stalled(generated, r.generated)
          IN /\ generated' = r.generated
             /\ out' = r.out
             /\ pc' = IF ~r.ok THEN "returned" ELSE IF stall THEN "finish" ELSE "loop"
             /\ result' = IF ~r.ok THEN [tag |-> "Err", val |-> << >>] ELSE result
             /\ warned' = (warned \/ stall)
             /\ hist' = Append(hist, [given |-> o, ok |-> r.ok, stall |-> stall,
                                      before |-> generated, after |-> r.generated,
                                      out_before |-> out, out_after |-> r.out])
    /\ UNCHANGED <<graph, collection_name, target, ordered, run, first, gvars, cvars>>

\* The loop test fails: generated >= self.target
SampleLoopExit ==
    /\ pc = "loop"
    /\ ~(generated < target)
    /\ pc' = "finish"
    /\ UNCHANGED <<graph, collection_name, target, ordered, generated, out, result, warned, hist,
                   run, first, gvars, cvars>>

\* SampleReturn that fails in collection mode when nothing was counted
SampleReturnErrOnEmpty ==
    /\ pc = "finish"
    /\ pc' = "returned"
    /\ result' = IF IsNone(collection_name)
                 THEN OrderedOut(out, ordered, << >>)
                 ELSE IF generated = 0 /\ hist # << >>
                      THEN [tag |-> "Err", val |-> << >>]
                      ELSE [tag |-> "Ok", val |-> out]
    /\ UNCHANGED <<graph, collection_name, target, ordered, generated, out, warned, hist,
                   run, first, gvars, cvars>>

\* After the loop: the ordered output of namespace mode, `out` itself in
\* collection mode
SampleReturn ==
    /\ pc = "finish"
    /\ pc' = "returned"
    /\ result' = IF IsNone(collection_name)
                 THEN OrderedOut(out, ordered, << >>)
                 ELSE [tag |-> "Ok", val |-> out]
    /\ UNCHANGED <<graph, collection_name, target, ordered, generated, out, warned, hist,
                   run, first, gvars, cvars>>

\* SampleAgain in which the count of the first run survives
SampleAgainKeepsCount ==
    /\ pc = "returned"
    /\ run = 1
    /\ run' = 2
    /\ first' = [result |-> result, hist |-> hist]
    /\ generated' = generated
    /\ out' = IF IsNone(collection_name) THEN [n \in KeySet |-> Absent] ELSE ArrayV(<< >>)
    /\ pc' = "loop"
    /\ result' = [tag |-> "None", val |-> << >>]
    /\ warned' = FALSE
    /\ hist' = << >>
    /\ UNCHANGED <<graph, collection_name, target, ordered, gvars, cvars>>

\* sample_seeded is called a second time on the same compiled graph with
\* the same collection_name, target and seed: the strategy and its locals
\* are made anew (`let mut generated = 0; let mut out = ...`)
SampleAgain ==
    /\ pc = "returned"
    /\ run = 1
    /\ run' = 2
    /\ first' = [result |-> result, hist |-> hist]
    /\ generated' = 0
    /\ out' = IF IsNone(collection_name) THEN [n \in KeySet |-> Absent] ELSE ArrayV(<< >>)
    /\ pc' = "loop"
    /\ result' = [tag |-> "None", val |-> << >>]
    /\ warned' = FALSE
    /\ hist' = << >>
    /\ UNCHANGED <<graph, collection_name, target, ordered, gvars, cvars>>

SamplerNext == SampleRound \/ SampleLoopExit \/ SampleReturn \/ SampleAgain

SpecSampler == SamplerInit /\ [][SamplerNext]_vars

\* sample is a sequential function: it keeps running until it returns
SpecSamplerLive == SpecSampler /\ WF_vars(SamplerNext)

\* ------------------------------------------------------------------ cli run
\* `synth generate` with or without --random and --seed, before
\* derive_seed is called
CliInit ==
    /\ GenIdle
    /\ SamplerIdle
    /\ random \in BOOLEAN
    /\ seed \in SeedArgs
    /\ derived = [tag |-> "None", val |-> 0]
    /\ ImportIdle

\* Self::derive_seed(random, seed)
DeriveSeed ==
    /\ derived.tag = "None"
    /\ derived' \in derive_seed(random, seed)
    /\ UNCHANGED <<random, seed, workspace, store, imported, gvars, svars>>

CliNext == DeriveSeed

SpecCli == CliInit /\ [][CliNext]_vars

Called == op # "new"

\* ------------------------------------------------------------------ C1
\* The step-state a combinator owns, its children left out
OwnState(g) ==
    CASE g.kind = "Once" -> <<g.output>>
      [] g.kind = "AndThen" -> <<g.output>>
      [] g.kind = "Concatenate" -> <<g.left_output>>
      [] g.kind = "Brace" -> <<g.state, g.complete>>
      [] g.kind = "Aggregate" -> <<g.output>>
      [] g.kind = "Repeat" -> <<g.len, g.rem, g.ret>>
      [] g.kind = "Chain" -> <<g.idx, g.completed>>
      [] g.kind = "OneOf" -> <<g.cursor>>
      [] g.kind = "Maybe" -> <<g.include>>
RearmKinds ==
    {"Once", "AndThen", "Concatenate", "Brace", "Aggregate", "Repeat", "Chain", "OneOf", "Maybe"}

\* C1: whenever a call on once, and_then, concatenate, brace, aggregate,
\* repeat, chain, one_of or maybe has returned Complete, the combinator's own
\* step-state equals the step-state it was constructed with, in every round.
C1_Rearmed ==
    (Called /\ is_complete(res) /\ gen.kind \in RearmKinds)
        => OwnState(gen) = OwnState(rounds[1].start.g)

\* a repeat of two has completed its third round by a plain step
C1_Witness ==
    /\ gen.kind = "Repeat" /\ gen.len = 2 /\ op = "next"
    /\ is_complete(res) /\ Len(rounds) = 3

\* ------------------------------------------------------------------ C2
\* C2: every round of once(g) is the two steps Yielded(y), Complete(y), y
\* being the value g yields when stepped at the start of the round; g is
\* stepped once in the round; complete on a once that holds no stashed
\* value returns the value g yields first.
C2_Once ==
    gen.kind = "Once" =>
        /\ \A k \in 1..Len(rounds) :
              LET rd == rounds[k]
                  y == GenNext(rd.start.g.inner, rd.start.rng).res.val
              IN /\ rd.trace = <<Yielded(y), Completed(y)>>
                 /\ Len(CallsOn(rd.rlog, "inner")) = 1
        /\ (~AtBoundary) => (Len(trace) = 1 /\ is_yielded(trace[1])
                             /\ Len(CallsOn(rlog, "inner")) = 1)
        /\ (op = "complete" /\ IsNone(pre.g.output))
              => res = Completed(GenNext(pre.g.inner, pre.rng).res.val)

\* complete was called on a fresh once over the random primitive, twice
C2_Witness ==
    /\ gen.kind = "Once" /\ gen.inner.kind = "Random"
    /\ op = "complete" /\ IsNone(pre.g.output) /\ Len(rounds) = 2

\* ------------------------------------------------------------------ C3
\* C3: every round of aggregate(g) is the two steps Yielded(v), Complete(r),
\* v being the vector of the values g yields in its round (in order) and r
\* what g returns; a round under way has produced that one vector only.
C3_Aggregate ==
    gen.kind = "Aggregate" =>
        /\ \A k \in 1..Len(rounds) :
              LET rd == rounds[k]
                  ref == RoundOf(rd.start.g.inner, rd.start.rng)
              IN rd.trace = <<Yielded(VecV(YieldsOf(ref.seen))), Completed(ref.ret)>>
        /\ (~AtBoundary) =>
              trace = <<Yielded(VecV(YieldsOf(RoundOf(start.g.inner, start.rng).seen)))>>

\* an aggregate has been stepped through two rounds, the second collecting
\* two values
C3_Witness ==
    /\ gen.kind = "Aggregate" /\ op = "next" /\ Len(rounds) = 2
    /\ Len(trace[1].val[2]) = 2
    /\ is_complete(res)

\* an aggregate over a generator that yielded nothing in the round
C3_WitnessEmpty ==
    /\ gen.kind = "Aggregate" /\ op = "next" /\ is_yielded(res)
    /\ res.val = VecV(<< >>)

\* ------------------------------------------------------------------ C4
\* The last call started its round: nothing of the round was consumed before
FromStart == Called /\ start = pre
Last(tr) == tr[Len(tr)]

\* C4 as stated: complete on a fresh aggregate(g) returns the vector of the
\* values g yields in the round, and complete on a fresh
\* aggregate(g).repeat(k) returns k such vectors.
C4_Original ==
    /\ (gen.kind = "Aggregate" /\ op = "complete" /\ FromStart)
          => res.val = VecV(YieldsOf(RoundOf(pre.g.inner, pre.rng).seen))
    /\ (gen.kind = "Repeat" /\ gen.inner.kind = "Aggregate" /\ op = "complete" /\ FromStart)
          => res.val = VecV(RoundsOf(pre.g.inner.inner, pre.rng, gen.len).vecs)

\* C4 (amended): a fresh aggregate(g) driven by complete yields one value,
\* the vector of the values g yields in the round, and returns what g
\* returns; a fresh aggregate(g).repeat(k) yields k such vectors and returns
\* the vector of g's k returns.
C4_AggregateComplete ==
    /\ (gen.kind = "Aggregate" /\ op = "complete" /\ FromStart) =>
          LET ref == RoundOf(pre.g.inner, pre.rng)
          IN /\ YieldsOf(trace) = <<VecV(YieldsOf(ref.seen))>>
             /\ res = Completed(ref.ret)
             /\ rng = ref.rng
    /\ (gen.kind = "Repeat" /\ gen.inner.kind = "Aggregate" /\ op = "complete" /\ FromStart) =>
          LET ref == RoundsOf(pre.g.inner.inner, pre.rng, gen.len)
          IN /\ YieldsOf(trace) = ref.vecs
             /\ res = Completed(VecV(ref.rets))
             /\ rng = ref.rng

\* complete was called on a fresh aggregate over maybe(once(Random)) whose
\* coin came up heads: one value collected, Some(value) returned
C4_Witness ==
    /\ gen.kind = "Aggregate" /\ gen.inner.kind = "Maybe" /\ op = "complete" /\ FromStart
    /\ IsSome(res.val)
    /\ Len(trace[1].val[2]) = 1

\* complete was called on a fresh aggregate(once(Random)).repeat(2)
C4_WitnessRepeat ==
    /\ gen.kind = "Repeat" /\ gen.inner.kind = "Aggregate" /\ gen.len = 2
    /\ gen.inner.inner.kind = "Once" /\ op = "complete" /\ FromStart

\* ------------------------------------------------------------------ C5
\* C5: a round of repeat(g, n) completes g exactly n times, yields the
\* values of n rounds of g in order and returns the vector of the n values
\* g returned, in order; for n = 0 the round is the single step
\* Complete(empty vector) and g is not stepped.
C5_Repeat ==
    gen.kind = "Repeat" =>
        \A k \in 1..Len(rounds) :
            LET rd == rounds[k]
                ref == RoundsOf(rd.start.g.inner, rd.start.rng, gen.len)
            IN /\ Len(CompletesOn(rd.rlog, "inner")) = gen.len
               /\ YieldsOf(rd.trace) = ref.ys
               /\ Last(rd.trace) = Completed(VecV(ref.rets))
               /\ Len(Last(rd.trace).val[2]) = gen.len
               /\ Len(rd.trace) = Len(ref.ys) + 1
               /\ rd.end.g.inner = ref.g
               /\ rd.end.rng = ref.rng
               /\ gen.len = 0 => /\ rd.trace = <<Completed(VecV(<< >>))>>
                                 /\ rd.rlog = << >>
                                 /\ rd.end.g.inner = rd.start.g.inner

\* a repeat of two over once(Random) has completed a round in which the two
\* values drawn differ
C5_Witness ==
    /\ gen.kind = "Repeat" /\ gen.len = 2 /\ gen.inner.kind = "Once"
    /\ gen.inner.inner.kind = "Random"
    /\ Called /\ is_complete(res) /\ Len(res.val[2]) = 2
    /\ res.val[2][1] # res.val[2][2]

\* a repeat of zero has completed on its first step
C5_WitnessZero ==
    /\ gen.kind = "Repeat" /\ gen.len = 0 /\ op = "next" /\ Len(rounds) = 1

\* ------------------------------------------------------------------ C6
\* The round stepped the inner generator
Fresh(rd) == CallsOn(rd.rlog, "inner") # << >>

\* C6: the rounds of replay(g, n) come in groups of one round that steps g
\* followed by n rounds replayed from the buffer: the round after the n-th
\* replay steps g again.
C6_ReplayGroups ==
    gen.kind = "Replay" =>
        \A k \in 1..Len(rounds) :
            Fresh(rounds[k]) <=> ((k - 1) % (gen.len + 1) = 0)

\* ------------------------------------------------------------------ C7
IsPrefix(a, b) == Len(a) <= Len(b) /\ \A i \in 1..Len(a) : a[i] = b[i]

\* C7: the first round of replay(g, n) returns the step results of a round
\* of g; each of the next n rounds returns the same step results, without a
\* step of g and without a draw from the RNG.
C7_ReplayFaithful ==
    gen.kind = "Replay" =>
        /\ Len(rounds) >= 1 =>
              LET rd == rounds[1]
                  ref == RoundOf(rd.start.g.inner, rd.start.rng)
              IN /\ rd.trace = ref.seen
                 /\ rd.end.rng = ref.rng
                 /\ rd.end.g.inner = ref.g
        /\ \A k \in 2..Len(rounds) :
              k <= gen.len + 1 =>
                  /\ rounds[k].trace = rounds[1].trace
                  /\ rounds[k].rlog = << >>
                  /\ rounds[k].end.rng = rounds[k].start.rng
                  /\ rounds[k].end.g.inner = rounds[k].start.g.inner
        /\ (~AtBoundary /\ Len(rounds) = 0) =>
              IsPrefix(trace, RoundOf(start.g.inner, start.rng).seen)
        /\ (~AtBoundary /\ Len(rounds) >= 1 /\ Len(rounds) <= gen.len) =>
              /\ IsPrefix(trace, rounds[1].trace)
              /\ rlog = << >>
              /\ rng = start.rng
              /\ gen.inner = start.g.inner

\* the second replay of a replay(g, 2) over a generator that yielded two
\* values has completed
C7_Witness ==
    /\ gen.kind = "Replay" /\ gen.len = 2 /\ Len(rounds) = 3
    /\ Len(rounds[1].trace) = 3 /\ op = "next" /\ is_complete(res)

\* ------------------------------------------------------------------ C8
\* C8: every step of replay(g, 0) is one step of g and returns what that
\* step returns; every round is a round of g, none comes from the buffer.
C8_ReplayZero ==
    (gen.kind = "Replay" /\ gen.len = 0) =>
        /\ op = "next" =>
              LET n == GenNext(pre.g.inner, pre.rng)
              IN /\ res = n.res
                 /\ gen.inner = n.g
                 /\ rng = n.rng
                 /\ log = <<Ev("inner", n.res)>>
        /\ \A k \in 1..Len(rounds) :
              LET rd == rounds[k]
                  ref == RoundOf(rd.start.g.inner, rd.start.rng)
              IN /\ rd.trace = ref.seen
                 /\ rd.end.g.inner = ref.g
                 /\ rd.end.rng = ref.rng
                 /\ Len(CallsOn(rd.rlog, "inner")) = Len(rd.trace)

\* a replay(g, 0) has been stepped into its second round, which differs from
\* the first
C8_Witness ==
    /\ gen.kind = "Replay" /\ gen.len = 0 /\ Len(rounds) = 2 /\ op = "next"
    /\ rounds[1].trace # rounds[2].trace

\* ------------------------------------------------------------------ C9
\* The calls of a round of and_then come in the order: steps of g, the last
\* of which completes; one application of the closure to g's return; steps
\* of the generator the closure built.
AndThenOrder(l, gret) ==
    \E c \in 2..Len(l) :
        /\ l[c] = Ev("closure", Completed(gret))
        /\ l[c - 1] = Ev("inner", Completed(gret))
        /\ \A i \in 1..(c - 2) : l[i].who = "inner" /\ is_yielded(l[i].res)
        /\ \A i \in (c + 1)..Len(l) : l[i].who = "output"

\* C9: a round of and_then(g, f) yields what g yields, then what h = f(g's
\* return) yields, and returns what h returns; f is applied once, after g
\* has completed and before h is stepped; h is dropped on completion and
\* the next round starts with a step of g.
C9_AndThen ==
    gen.kind = "AndThen" =>
        /\ \A k \in 1..Len(rounds) :
              LET rd == rounds[k]
                  gref == RoundOf(rd.start.g.inner, rd.start.rng)
                  h == ApplyClosure(gen.closure, gref.ret)
                  href == RoundOf(h, gref.rng)
              IN /\ YieldsOf(rd.trace) = YieldsOf(gref.seen) \o YieldsOf(href.seen)
                 /\ Last(rd.trace) = Completed(href.ret)
                 /\ Len(rd.trace) = Len(gref.seen) + Len(href.seen) - 1
                 /\ Len(CallsOn(rd.rlog, "closure")) = 1
                 /\ AndThenOrder(rd.rlog, gref.ret)
                 /\ Len(CompletesOn(rd.rlog, "output")) = 1
                 /\ Last(rd.rlog).who = "output"
                 /\ IsNone(rd.start.g.output)
                 /\ IsNone(rd.end.g.output)
                 /\ rd.end.g.inner = gref.g
                 /\ rd.end.rng = href.rng
        /\ (~AtBoundary) =>
              /\ rlog[1].who = "inner"
              /\ Len(CallsOn(rlog, "closure")) <= 1
              /\ \A i, j \in 1..Len(rlog) :
                    (i < j /\ rlog[i].who # "inner") => rlog[j].who = "output"

\* and_then(once(Random), draws) has completed its second round by steps, in
\* which g and h each yielded
C9_Witness ==
    /\ gen.kind = "AndThen" /\ gen.closure = "draws" /\ gen.inner.kind = "Once"
    /\ op = "next" /\ is_complete(res) /\ Len(rounds) = 2
    /\ Len(trace) >= 3

\* ------------------------------------------------------------------ C10
\* C10: a round of concatenate(l, r) yields what l yields, then what r
\* yields, and returns the pair of what l and r returned in that round; r is
\* not stepped before l has completed in the round, and l is not stepped
\* after.
C10_Concatenate ==
    gen.kind = "Concatenate" =>
        /\ \A k \in 1..Len(rounds) :
              LET rd == rounds[k]
                  lref == RoundOf(rd.start.g.left, rd.start.rng)
                  rref == RoundOf(rd.start.g.right, lref.rng)
              IN /\ YieldsOf(rd.trace) = YieldsOf(lref.seen) \o YieldsOf(rref.seen)
                 /\ Last(rd.trace) = Completed(PairV(lref.ret, rref.ret))
                 /\ Len(rd.trace) = Len(lref.seen) + Len(rref.seen) - 1
                 /\ Len(CompletesOn(rd.rlog, "left")) = 1
                 /\ Len(CompletesOn(rd.rlog, "right")) = 1
                 /\ rd.end.g.left = lref.g
                 /\ rd.end.g.right = rref.g
                 /\ rd.end.rng = rref.rng
        /\ Called =>
              LET l == IF AtBoundary THEN Last(rounds).rlog ELSE rlog
              IN \A j \in 1..Len(l) :
                    l[j].who = "right" =>
                        /\ \E i \in 1..(j - 1) : l[i].who = "left" /\ is_complete(l[i].res)
                        /\ \A i \in (j + 1)..Len(l) : l[i].who = "right"

\* concatenate of two repeat(once(Random), 2) has completed a round by
\* steps: four values yielded, then the pair
C10_Witness ==
    /\ gen.kind = "Concatenate" /\ gen.left.kind = "Repeat" /\ gen.right.kind = "Repeat"
    /\ op = "next" /\ is_complete(res) /\ Len(trace) = 5 /\ Len(rounds) = 2

\* ------------------------------------------------------------------ C11
\* The calls of a log are made phase by phase: begin, then inner, then end
PhaseOrder(l) ==
    \A i, j \in 1..Len(l) :
        i < j => /\ l[i].who = "inner" => l[j].who # "begin"
                 /\ l[i].who = "end" => l[j].who = "end"

\* C11: a round of brace(b, g, e) steps b until it completes, then g, then
\* e, each completing exactly once; it yields what b yields, then what g
\* yields, then what e yields, and returns what g returned, whatever b and
\* e returned. prefix and suffix are the brace whose missing side is the
\* generator that completes at once without yielding: that side is stepped
\* once per round and adds no yield.
C11_Brace ==
    gen.kind = "Brace" =>
        /\ \A k \in 1..Len(rounds) :
              LET rd == rounds[k]
                  bref == RoundOf(rd.start.g.begin, rd.start.rng)
                  gref == RoundOf(rd.start.g.inner, bref.rng)
                  eref == RoundOf(rd.start.g.end, gref.rng)
              IN /\ YieldsOf(rd.trace)
                        = YieldsOf(bref.seen) \o YieldsOf(gref.seen) \o YieldsOf(eref.seen)
                 /\ Last(rd.trace) = Completed(gref.ret)
                 /\ PhaseOrder(rd.rlog)
                 /\ Len(CompletesOn(rd.rlog, "begin")) = 1
                 /\ Len(CompletesOn(rd.rlog, "inner")) = 1
                 /\ Len(CompletesOn(rd.rlog, "end")) = 1
                 /\ Len(CallsOn(rd.rlog, "begin")) = Len(bref.seen)
                 /\ Len(CallsOn(rd.rlog, "inner")) = Len(gref.seen)
                 /\ Len(CallsOn(rd.rlog, "end")) = Len(eref.seen)
                 /\ rd.end.g.begin = bref.g
                 /\ rd.end.g.inner = gref.g
                 /\ rd.end.g.end = eref.g
                 /\ rd.end.rng = eref.rng
                 /\ rd.start.g.begin = CompleteEmpty =>
                        /\ Len(CallsOn(rd.rlog, "begin")) = 1
                        /\ YieldsOf(rd.trace) = YieldsOf(gref.seen) \o YieldsOf(eref.seen)
                 /\ rd.start.g.end = CompleteEmpty =>
                        /\ Len(CallsOn(rd.rlog, "end")) = 1
                        /\ YieldsOf(rd.trace) = YieldsOf(bref.seen) \o YieldsOf(gref.seen)
        /\ (~AtBoundary) => PhaseOrder(rlog)

\* brace(once(Random), maybe(once(Random)), Complete::wrap(1)) has completed
\* a round by steps in which the begin generator yielded, and the end
\* generator returned something else than the inner one
C11_Witness ==
    /\ gen.kind = "Brace" /\ gen.begin.kind = "Maybe" /\ gen.end = CompleteWrap(IntV(1))
    /\ op = "next" /\ is_complete(res) /\ Len(trace) = 3 /\ Len(rounds) = 2
    /\ res # Completed(IntV(1))

\* prefix(once(Random), once(Random)) has completed a round by steps
C11_WitnessPrefix ==
    /\ gen.kind = "Brace" /\ gen.end = CompleteEmpty /\ gen.begin.kind = "Once"
    /\ op = "next" /\ is_complete(res) /\ Len(trace) = 3

\* ------------------------------------------------------------------ C12
\* C12: a round of a chain of k generators steps the generators in index
\* order, each until it completes and each completing exactly once; it
\* yields what they yield, in that order, and returns the vector of their k
\* returns in index order. A chain of no generators completes at its first
\* step with the empty vector.
C12_Chain ==
    gen.kind = "Chain" =>
        /\ \A r \in 1..Len(rounds) :
              LET rd == rounds[r]
                  k == Len(rd.start.g.inners)
                  ref == RoundsInOrder(rd.start.g.inners, rd.start.rng)
              IN /\ YieldsOf(rd.trace) = ref.ys
                 /\ Last(rd.trace) = Completed(VecV(ref.rets))
                 /\ Len(ref.rets) = k
                 /\ Len(rd.rlog) = Len(CallsOn(rd.rlog, "inners"))
                 /\ \A i, j \in 1..Len(rd.rlog) : i < j => rd.rlog[i].at <= rd.rlog[j].at
                 /\ \A i \in 1..k :
                       LET calls_i == SelectSeq(rd.rlog, LAMBDA e : e.at = i - 1)
                       IN /\ Len(calls_i) = ref.lens[i]
                          /\ is_complete(Last(calls_i).res)
                          /\ \A c \in 1..(Len(calls_i) - 1) : is_yielded(calls_i[c].res)
                          /\ Last(calls_i).res = Completed(ref.rets[i])
                 /\ rd.end.g.inners = ref.gs
                 /\ rd.end.rng = ref.rng
                 /\ k = 0 => rd.trace = <<Completed(VecV(<< >>))>>
        /\ (~AtBoundary) =>
              \A i, j \in 1..Len(rlog) : i < j => rlog[i].at <= rlog[j].at

\* The chain of three maybe(once(Random)) has completed its second round by
\* steps, returning three values that are not all the same
C12_Witness ==
    /\ gen.kind = "Chain" /\ Len(gen.inners) = 3
    /\ op = "next" /\ is_complete(res) /\ Len(rounds) = 2
    /\ Len(trace) >= 2
    /\ (res.val[2][1] # res.val[2][2] \/ res.val[2][2] # res.val[2][3])

\* The chain of no generators has completed at its first step
C12_WitnessEmpty ==
    /\ gen.kind = "Chain" /\ Len(gen.inners) = 0
    /\ op = "next" /\ res = Completed(VecV(<< >>)) /\ Len(rounds) = 1

\* ------------------------------------------------------------------ C13
\* A log of a round of one_of that picked: one draw, first, and after it
\* only steps of the generator at the drawn index
PickedOnce(l) ==
    /\ l[1].who = "rng"
    /\ \A i \in 2..Len(l) : l[i].who = "picked" /\ l[i].at = l[1].res.val[2]

\* C13: a round of one_of returns None exactly when there is no inner
\* generator. Otherwise one index is drawn at the first step of the round,
\* only the generator at that index is stepped, until it completes; the
\* round yields what it yields and returns Some of what it returns, and the
\* other generators are left as they were. With one inner generator the
\* round yields what that generator yields and returns Some of its return.
C13_OneOf ==
    gen.kind = "OneOf" =>
        /\ \A r \in 1..Len(rounds) :
              LET rd == rounds[r]
                  gs == rd.start.g.inners
                  k == Len(gs)
              IN /\ (Last(rd.trace) = Completed(NoneV)) <=> (k = 0)
                 /\ IsNone(rd.start.g.cursor)
                 /\ k = 0 => rd.trace = <<Completed(NoneV)>> /\ rd.rlog = << >>
                 /\ k > 0 =>
                       LET d == RngGenRange(rd.start.rng, k)
                           ref == RoundOf(gs[d.val + 1], d.rng)
                       IN /\ PickedOnce(rd.rlog)
                          /\ rd.rlog[1].res = Yielded(IntV(d.val))
                          /\ Len(rd.rlog) = 1 + Len(ref.seen)
                          /\ \A i \in 2..Len(rd.rlog) : rd.rlog[i].res = ref.seen[i - 1]
                          /\ YieldsOf(rd.trace) = YieldsOf(ref.seen)
                          /\ Len(rd.trace) = Len(ref.seen)
                          /\ Last(rd.trace) = Completed(SomeV(ref.ret))
                          /\ rd.end.g.inners = [gs EXCEPT ![d.val + 1] = ref.g]
                          /\ rd.end.rng = ref.rng
                 /\ k = 1 =>
                       LET ref == RoundOf(gs[1], RngGenRange(rd.start.rng, 1).rng)
                       IN /\ YieldsOf(rd.trace) = YieldsOf(ref.seen)
                          /\ Last(rd.trace) = Completed(SomeV(ref.ret))
        /\ (~AtBoundary) => PickedOnce(rlog)

\* one_of(repeat(once(Random), 1), repeat(once(Random), 2)) has completed
\* its second round by steps, having picked the second generator
C13_Witness ==
    /\ gen.kind = "OneOf" /\ Len(gen.inners) = 2 /\ gen.inners[1].kind = "Repeat"
    /\ op = "next" /\ is_complete(res) /\ Len(rounds) = 2
    /\ Len(trace) = 3 /\ rlog[1].res = Yielded(IntV(1))

\* one_of of no generators has completed a round with None
C13_WitnessEmpty ==
    /\ gen.kind = "OneOf" /\ Len(gen.inners) = 0
    /\ op = "next" /\ res = Completed(NoneV)

\* one_of of the single generator Just(42) has completed a round by steps
C13_WitnessSingle ==
    /\ gen.kind = "OneOf" /\ Len(gen.inners) = 1
    /\ op = "next" /\ is_complete(res) /\ trace[1] = Yielded(IntV(42))

\* ------------------------------------------------------------------ C14
\* A log of a round of maybe: the coin first, and no other draw of it
CoinOnce(l) == l[1].who = "rng" /\ \A i \in 2..Len(l) : l[i].who = "inner"

\* C14: a round of maybe(g) draws the coin once, at its first step. On
\* tails that step returns None and g is not stepped and is left as it
\* was; on heads g is stepped until it completes, once, the round yields
\* what g yields and returns Some of what g returns. No later step of the
\* round draws the coin.
C14_Maybe ==
    gen.kind = "Maybe" =>
        /\ \A r \in 1..Len(rounds) :
              LET rd == rounds[r]
                  d == RngGenBool(rd.start.rng)
                  ref == RoundOf(rd.start.g.inner, d.rng)
              IN /\ CoinOnce(rd.rlog)
                 /\ rd.rlog[1].res = Yielded(<<"bool", d.val>>)
                 /\ ~rd.start.g.include
                 /\ (~d.val) =>
                       /\ rd.trace = <<Completed(NoneV)>>
                       /\ Len(rd.rlog) = 1
                       /\ rd.end.g.inner = rd.start.g.inner
                       /\ rd.end.rng = d.rng
                 /\ d.val =>
                       /\ Len(rd.rlog) = 1 + Len(ref.seen)
                       /\ \A i \in 2..Len(rd.rlog) : rd.rlog[i].res = ref.seen[i - 1]
                       /\ Len(CompletesOn(rd.rlog, "inner")) = 1
                       /\ YieldsOf(rd.trace) = YieldsOf(ref.seen)
                       /\ Len(rd.trace) = Len(ref.seen)
                       /\ Last(rd.trace) = Completed(SomeV(ref.ret))
                       /\ rd.end.g.inner = ref.g
                       /\ rd.end.rng = ref.rng
        /\ (~AtBoundary) => CoinOnce(rlog) /\ gen.include
        /\ (op = "next" /\ pre.g.include) => CallsOn(log, "rng") = << >>

\* maybe(repeat(once(Random), 2)) has completed a round on heads by three
\* steps
C14_Witness ==
    /\ gen.kind = "Maybe" /\ gen.inner.kind = "Repeat"
    /\ op = "next" /\ is_complete(res) /\ Len(trace) = 3 /\ Len(rlog) = 4

\* maybe(repeat(once(Random), 2)) has completed a round on tails
C14_WitnessTails ==
    /\ gen.kind = "Maybe" /\ gen.inner.kind = "Repeat"
    /\ op = "next" /\ res = Completed(NoneV) /\ Len(rlog) = 1

\* ------------------------------------------------------------------ C15
\* The traces of the first n completed rounds, one after the other
RECURSIVE TracesOf(_, _)
TracesOf(rds, n) == IF n = 0 THEN << >> ELSE TracesOf(rds, n - 1) \o rds[n].trace
\* Every result `next` has returned since construction, in order
Taken == TracesOf(rounds, Len(rounds)) \o (IF AtBoundary THEN << >> ELSE trace)

\* C15: whatever peek, peek_next and next calls were made on peekable(g),
\* the results returned by next, followed by the results still queued, are
\* the results of g stepped on its own that many times, in order, and g
\* has been stepped exactly that many times; a peek returns the result
\* behind everything taken and queued before it (the k-th upcoming one at
\* the k-th peek in a row from an empty queue), and peek_next returns the
\* oldest result next has not returned yet.
C15_Peekable ==
    gen.kind = "Peek" =>
        LET n == Len(Taken) + Len(gen.buffer)
            ref == RunSteps(origin.g.inner, origin.rng, n)
        IN /\ Taken \o gen.buffer = ref.seq
           /\ gen.inner = ref.g
           /\ rng = ref.rng
           /\ op = "peek" => res = ref.seq[n] /\ Len(gen.buffer) = Len(pre.g.buffer) + 1
           /\ op = "peek_next" => res = ref.seq[Len(Taken) + 1]
           /\ op = "next" => res = ref.seq[Len(Taken)]

\* Two peeks on peekable(Random) returned different values and next has
\* returned the first of them
C15_Witness ==
    /\ gen.kind = "Peek" /\ gen.inner.kind = "Random"
    /\ op = "next" /\ calls = 3 /\ Len(gen.buffer) = 1 /\ res # gen.buffer[1]

\* peek_next after two peeks and a next on peekable(Random): the value
\* returned is the second one peeked
C15_WitnessPeekNext ==
    /\ gen.kind = "Peek" /\ gen.inner.kind = "Random"
    /\ op = "peek_next" /\ calls = 4 /\ Len(gen.buffer) = 1 /\ Len(Taken) = 1
    /\ res # Taken[1]

\* ------------------------------------------------------------------ C16
\* C16 as stated: a call of peek_next never steps g and never changes the
\* queue.
C16_Original ==
    (gen.kind = "Peek" /\ op = "peek_next") =>
        /\ log = << >>
        /\ gen.inner = pre.g.inner
        /\ gen.buffer = pre.g.buffer

\* C16: peek_next returns the head of the queue. On a queue that is not
\* empty it steps nothing and changes nothing; on an empty queue it steps g
\* exactly once and puts the result in the queue, which is the result it
\* returns.
C16_PeekNext ==
    (gen.kind = "Peek" /\ op = "peek_next") =>
        /\ res = Head(gen.buffer)
        /\ IF pre.g.buffer # << >>
           THEN /\ log = << >>
                /\ gen = pre.g
                /\ rng = pre.rng
           ELSE LET n == GenNext(pre.g.inner, pre.rng)
                IN /\ log = <<Ev("inner", n.res)>>
                   /\ gen.inner = n.g
                   /\ rng = n.rng
                   /\ gen.buffer = <<n.res>>

\* peek_next on peekable(Random) whose queue held two results
C16_Witness ==
    /\ gen.kind = "Peek" /\ gen.inner.kind = "Random"
    /\ op = "peek_next" /\ Len(pre.g.buffer) = 2 /\ Len(gen.buffer) = 2

\* peek_next on a peekable whose queue was empty
C16_WitnessEmpty ==
    /\ gen.kind = "Peek" /\ op = "peek_next"
    /\ pre.g.buffer = << >> /\ Len(gen.buffer) = 1 /\ Len(Taken) = 1

\* ------------------------------------------------------------------ C17
\* C17: every step of exhaust(g) returns Complete(r), r being what g
\* returns for the round it was driven through by that step: g is stepped
\* from where it stood until it completes, once, and none of its yields is
\* returned.
C17_Exhaust ==
    gen.kind = "Exhaust" =>
        /\ Called =>
              LET ref == RoundOf(pre.g.inner, pre.rng)
              IN /\ res = Completed(ref.ret)
                 /\ gen.inner = ref.g
                 /\ rng = ref.rng
                 /\ log = [i \in 1..Len(ref.seen) |-> Ev("inner", ref.seen[i])]
                 /\ Len(CompletesOn(log, "inner")) = 1
                 /\ is_complete(Last(log).res)
                 /\ trace = <<res>>
        /\ \A r \in 1..Len(rounds) :
              /\ Len(rounds[r].trace) = 1
              /\ is_complete(rounds[r].trace[1])

\* exhaust(concatenate(repeat(once(Random), 2), maybe(once(Random)))) has
\* been stepped twice, the second step driving g through four steps or more
C17_Witness ==
    /\ gen.kind = "Exhaust" /\ gen.inner.kind = "Concatenate"
    /\ op = "next" /\ Len(rounds) = 2 /\ Len(log) >= 4

\* ------------------------------------------------------------------ C18
\* The rounds of a run of the sampler: each started with the count below
\* the target; a round that was followed by another one had added to the
\* count and left it below the target; there are at most `target` of them.
C18_Rounds ==
    pc # "idle" =>
        /\ \A i \in 1..Len(hist) : hist[i].before < target
        /\ \A i \in 1..(Len(hist) - 1) :
              /\ hist[i].ok
              /\ hist[i].after > hist[i].before
              /\ hist[i].after < target
        /\ Len(hist) <= target
        /\ (pc = "loop" /\ hist # << >>) => Last(hist).ok /\ ~Last(hist).stall
        /\ (hist # << >> /\ Last(hist).ok /\ Last(hist).after = Last(hist).before) =>
              Last(hist).stall /\ pc \in {"finish", "returned"}

\* C18: in namespace and in collection mode the sampler starts a round
\* only while the count is below the target, starts none after a round
\* that brought the count to the target or above or that added nothing,
\* makes at most `target` rounds, and returns.
C18_Termination == []C18_Rounds /\ <>(pc = "returned")

\* The sampler has returned after as many rounds as the target, each
\* having added one to the count
C18_Witness ==
    /\ pc = "returned" /\ target = MaxTarget /\ Len(hist) = target
    /\ generated = target /\ result.tag = "Ok"

\* The sampler in collection mode has returned after a round that added
\* nothing
C18_WitnessStall ==
    /\ pc = "returned" /\ IsSome(collection_name) /\ Len(hist) = 2
    /\ Last(hist).stall /\ generated < target

\* ------------------------------------------------------------------ C19
\* The running result of collection n in `o`, the `out` of either mode
ResultOf(o, n) == IF IsNone(collection_name) THEN o[n] ELSE o
\* The collections the sampler tracks
Tracked == IF IsNone(collection_name) THEN CollectionsOf(graph) ELSE {Unwrap(collection_name)}
IsSuffix(a, b) ==
    Len(a) <= Len(b) /\ \A i \in 1..Len(a) : a[i] = b[Len(b) - Len(a) + i]

\* C19: in every round, for every tracked collection, the elements of an
\* array value are appended in order to the collection's running result
\* and its length is added to the count; a value that is not an array
\* replaces the running result and adds one to the count; a round in which
\* some tracked collection gave such a value is not a stall.
C19_Accumulation ==
    pc # "idle" =>
        \A i \in 1..Len(hist) :
            hist[i].ok =>
                /\ \A n \in Tracked :
                      LET v == hist[i].given.obj[n]
                          b == ResultOf(hist[i].out_before, n)
                          a == ResultOf(hist[i].out_after, n)
                      IN IF IsArray(v)
                         THEN /\ IsSuffix(Elements(v), Elements(a))
                              /\ IsArray(b) => a = ArrayV(Elements(b) \o Elements(v))
                              /\ hist[i].after >= hist[i].before + Len(Elements(v))
                         ELSE /\ a = v
                              /\ hist[i].after >= hist[i].before + 1
                              /\ ~hist[i].stall
                /\ IsSome(collection_name) =>
                      hist[i].after
                          = hist[i].before + Counted(hist[i].given.obj[Unwrap(collection_name)])
                /\ IsNone(collection_name) =>
                      hist[i].after = hist[i].before + CountedIn(hist[i].given.obj, Len(Keys))

\* ------------------------------------------------------------------ C20
\* C20: a round that adds nothing to the count is the last one; the
\* warning is logged, and the sampler returns Ok with the running results
\* as they stood before that round, collection by collection (in namespace
\* mode a collection that had no result yet comes out as the empty array),
\* each collection once; in collection mode the value returned is the
\* running result as it stood before that round.
C20_Stall ==
    (pc # "idle" /\ hist # << >> /\ Last(hist).stall) =>
        LET h == Last(hist)
        IN /\ warned
           /\ pc \in {"finish", "returned"}
           /\ \A i \in 1..(Len(hist) - 1) : ~hist[i].stall
           /\ generated = h.before
           /\ pc = "returned" =>
                 /\ result.tag = "Ok"
                 /\ IsSome(collection_name) => result.val = h.out_before
                 /\ IsNone(collection_name) =>
                       /\ Len(result.val) = Cardinality(CollectionsOf(graph))
                       /\ \A n \in CollectionsOf(graph) :
                             \E k \in 1..Len(result.val) :
                                /\ result.val[k][1] = n
                                /\ result.val[k][2]
                                      = IF IsAbsent(h.out_before[n]) THEN ArrayV(<< >>)
                                        ELSE h.out_before[n]

\* Collection mode: the sampler has returned the two elements of the first
\* round after a second round that added nothing
C20_Witness ==
    /\ pc = "returned" /\ IsSome(collection_name) /\ Len(hist) = 2 /\ Last(hist).stall
    /\ warned /\ result.tag = "Ok" /\ Len(Elements(result.val)) = 2

\* Namespace mode: the sampler has returned what the first round gave
\* after a second round that added nothing
C20_WitnessNamespace ==
    /\ pc = "returned" /\ IsNone(collection_name) /\ Len(hist) = 2 /\ Last(hist).stall
    /\ warned /\ result.tag = "Ok" /\ generated = 2

\* ------------------------------------------------------------------ C21
\* The value sample returned for collection n
ReturnedFor(n) ==
    IF IsNone(collection_name)
    THEN result.val[CHOOSE k \in 1..Len(result.val) : result.val[k][1] = n][2]
    ELSE result.val
\* The elements collection n generated in the first k rounds, in round order
RECURSIVE GeneratedFor(_, _)
GeneratedFor(n, k) ==
    IF k = 0 THEN << >> ELSE GeneratedFor(n, k - 1) \o Elements(hist[k].given.obj[n])
\* A run that has returned, no round of which failed
RanThrough == pc = "returned" /\ hist # << >> /\ \A i \in 1..Len(hist) : hist[i].ok

C21_WitnessReached ==
    /\ RanThrough /\ target = 2 /\ Len(hist) = 2 /\ generated = 2 /\ ~warned

\* ------------------------------------------------------------------ C22
\* Collection mode: the first round gave the selected collection and it
\* added nothing, and sample has returned
FirstRoundStalled ==
    /\ pc = "returned" /\ IsSome(collection_name)
    /\ Len(hist) = 1 /\ hist[1].ok /\ hist[1].after = 0

\* C22 as stated: when the first round of collection mode adds nothing for
\* the selected collection, sample returns a failure.
C22_Original == FirstRoundStalled => result.tag = "Err"

\* C22: when the first round of collection mode adds nothing for the
\* selected collection, the warning is logged and sample returns Ok with
\* the empty array; collection mode returns a failure only from a round
\* that failed.
C22_EmptyIsOk ==
    /\ FirstRoundStalled => warned /\ result = [tag |-> "Ok", val |-> ArrayV(<< >>)]
    /\ (pc = "returned" /\ IsSome(collection_name)) =>
          (result.tag = "Err" <=> (hist # << >> /\ ~Last(hist).ok))

\* Collection mode, target 2: the first round gave the selected collection
\* as the empty array, and sample has returned
C22_Witness ==
    /\ FirstRoundStalled /\ target = 2 /\ hist[1].stall
    /\ IsArray(hist[1].given.obj[Unwrap(collection_name)])

\* ------------------------------------------------------------------ C23
\* The collections in the order in which they were first inserted into
\* `out` in the first k rounds: for_each walks a round's object in key
\* order
RECURSIVE InsertionOrder(_)
InsertionOrder(k) ==
    IF k = 0 THEN << >>
    ELSE InsertionOrder(k - 1)
         \o SelectSeq(Keys, LAMBDA n : /\ IsAbsent(hist[k].out_before[n])
                                       /\ ~IsAbsent(hist[k].out_after[n]))

\* C23: the list namespace mode returns holds first the collections of
\* `ordered`, in that order, then every other collection that has a
\* running result, in the order of first insertion; each collection with a
\* running result is there once, with that result.
C23_Ordering ==
    (pc = "returned" /\ IsNone(collection_name) /\ result.tag = "Ok") =>
        LET rest == SelectSeq(InsertionOrder(Len(hist)),
                              LAMBDA n : \A i \in 1..Len(ordered) : ordered[i] # n)
            names == [k \in 1..Len(result.val) |-> result.val[k][1]]
        IN /\ names = ordered \o rest
           /\ \A i, j \in 1..Len(names) : names[i] = names[j] => i = j
           /\ \A n \in KeySet :
                 (~IsAbsent(out[n])) =>
                     \E k \in 1..Len(names) : names[k] = n /\ result.val[k][2] = out[n]

\* Namespace mode with the order <<"b">>: the list returned holds b and
\* then a
C23_Witness ==
    /\ pc = "returned" /\ IsNone(collection_name) /\ result.tag = "Ok"
    /\ ordered = <<"b">> /\ Len(result.val) = 2
    /\ result.val[1][1] = "b" /\ result.val[2][1] = "a"

\* Namespace mode with no order: the list returned holds a and then b
C23_WitnessNoOrder ==
    /\ pc = "returned" /\ IsNone(collection_name) /\ result.tag = "Ok"
    /\ ordered = << >> /\ Len(result.val) = 2 /\ Len(hist) = 2

\* ------------------------------------------------------------------ C24
\* C24: in the JSON object made of a namespace-mode sample, the collections
\* of the topological order come in that order: one that others refer to
\* (earlier in `ordered`) comes before them, whatever the names are.
C24_JsonOrder ==
    (pc = "returned" /\ IsNone(collection_name) /\ result.tag = "Ok") =>
        LET json == into_json(collection_name, result.val)[2]
            pos(n) == CHOOSE k \in 1..Len(json) : json[k][1] = n
        IN \A i, j \in 1..Len(ordered) : i < j => pos(ordered[i]) < pos(ordered[j])

\* ------------------------------------------------------------------ C25
\* C25: with a collection selected, the count is the number of values the
\* selected collection gave in the rounds so far (an array's elements, or
\* one for another value), every element of the running result was
\* generated under that name, and a round leaves count and result as they
\* are when the selected collection gave the empty array, whatever the
\* others gave; a round whose object lacks the selected collection is the
\* last: sample returns an error.
C25_CollectionOnly ==
    (pc # "idle" /\ IsSome(collection_name)) =>
        LET name == Unwrap(collection_name)
            oks == IF hist # << >> /\ ~Last(hist).ok THEN Len(hist) - 1 ELSE Len(hist)
        IN /\ name \in CollectionsOf(graph) =>
                 /\ generated = Len(GeneratedFor(name, oks))
                 /\ graph = TwoCollections =>
                       \A i \in 1..Len(Elements(out)) : Elements(out)[i][2] = name
                 /\ \A i \in 1..oks :
                       /\ hist[i].after = hist[i].before + Counted(hist[i].given.obj[name])
                       /\ hist[i].given.obj[name] = ArrayV(<< >>) =>
                             hist[i].out_after = hist[i].out_before
           /\ (name \notin CollectionsOf(graph) /\ hist # << >>) =>
                 /\ Len(hist) = 1
                 /\ pc = "returned"
                 /\ result = [tag |-> "Err", val |-> << >>]
           /\ (name \notin CollectionsOf(graph) /\ target > 0 /\ pc = "returned") =>
                 Len(hist) = 1

\* Collection a selected: in the first round a gave one element and b two,
\* and sample has returned after two rounds with a count of 2
C25_Witness ==
    /\ pc = "returned" /\ collection_name = SomeV("a") /\ result.tag = "Ok"
    /\ Len(hist) = 2 /\ generated = 2
    /\ hist[1].given.obj["a"] = ValueOf(1, 1, "a")
    /\ hist[1].given.obj["b"] = ValueOf(2, 1, "b")

\* A collection selected that the namespace does not have: sample has
\* returned the error of the first round
C25_WitnessMissing ==
    /\ pc = "returned" /\ collection_name = SomeV("zz") /\ result.tag = "Err"
    /\ Len(hist) = 1 /\ hist[1].given.tag = "Object"

\* ------------------------------------------------------------------ C26
\* Collection mode on a collection of the namespace has returned Ok, both
\* collections having given an array in every round
ArraysOnly ==
    /\ pc = "returned" /\ IsSome(collection_name) /\ result.tag = "Ok"
    /\ \A i \in 1..Len(hist) : \A n \in NameSet : IsArray(hist[i].given.obj[n])

\* C26 as stated: collection mode over two array collections returns
\* exactly `target` elements, whatever the length of the selected array in
\* each round.
C26_Original == ArraysOnly => Len(Elements(result.val)) = target

\* C26: collection mode over two array collections returns the flat array
\* of the elements the selected collection gave, round after round, and
\* nothing of the other collection. Unless the run stalled, it holds at
\* least `target` elements, and fewer than `target` before the last
\* round's; it holds exactly `target` when every round gave one element
\* (or the same number, dividing `target`).
C26_FlatArray ==
    ArraysOnly =>
        LET name == Unwrap(collection_name)
            len(i) == Len(Elements(hist[i].given.obj[name]))
            total == Len(Elements(result.val))
        IN /\ result.val = ArrayV(GeneratedFor(name, Len(hist)))
           /\ \A i \in 1..total : Elements(result.val)[i][2] = name
           /\ total = generated
           /\ warned => total < target
           /\ (~warned /\ hist # << >>) =>
                 /\ total >= target
                 /\ total - len(Len(hist)) < target
           /\ (hist # << >> /\ \A i \in 1..Len(hist) :
                  /\ len(i) = len(1) /\ len(i) > 0 /\ target % len(i) = 0)
                 => total = target

\* Collection a selected, target 3: a gave two elements in each of two
\* rounds, and sample has returned four elements
C26_Witness ==
    /\ ArraysOnly /\ target = 3 /\ Len(hist) = 2
    /\ Len(Elements(result.val)) = 4

\* Collection a selected, target 3: a gave one element in each of three
\* rounds, and sample has returned three elements
C26_WitnessExact ==
    /\ ArraysOnly /\ target = 3 /\ Len(hist) = 3
    /\ Len(Elements(result.val)) = 3

\* ------------------------------------------------------------------ C27
\* The namespace whose single collection x is the constant bool node b has
\* been sampled whole with target 3
ConstantSampled(b) ==
    /\ graph = from_namespace(<<"Constant", b>>).graph
    /\ IsNone(collection_name) /\ target = 3 /\ pc = "returned"

C28_WitnessBool ==
    /\ run = 2 /\ pc = "returned" /\ graph = from_namespace(<<"Frequency", 1>>).graph
    /\ IsNone(collection_name) /\ Len(hist) = 2
    /\ hist[1].given.obj["x"] = BoolV(TRUE) /\ hist[2].given.obj["x"] = BoolV(FALSE)

\* ------------------------------------------------------------------ C29
\* Round i failed: the completion returned an error, or its value is not
\* an object, or (collection mode) the object lacks the selected collection
RoundFails(i) ==
    \/ hist[i].given.tag # "Object"
    \/ IsSome(collection_name) /\ Unwrap(collection_name) \notin CollectionsOf(graph)

\* C29: a round fails exactly when its completion returned an error, its
\* value is not an object, or (collection mode) the object lacks the
\* selected collection. Such a round is the last: sample has returned
\* the error, with none of the values of earlier rounds, and count and
\* running results are as the round found them. sample returns an error
\* only from such a round.
C29_ErrorsDiscard ==
    pc # "idle" =>
        /\ \A i \in 1..Len(hist) :
              /\ RoundFails(i) <=> ~hist[i].ok
              /\ RoundFails(i) =>
                    /\ i = Len(hist)
                    /\ pc = "returned"
                    /\ result = [tag |-> "Err", val |-> << >>]
                    /\ hist[i].after = hist[i].before
                    /\ hist[i].out_after = hist[i].out_before
                    /\ ~hist[i].stall
        /\ result.tag = "Err" => (hist # << >> /\ RoundFails(Len(hist)))

\* Namespace mode: a first round added two values and the second failed;
\* sample has returned the error
C29_Witness ==
    /\ pc = "returned" /\ IsNone(collection_name) /\ Len(hist) = 2
    /\ hist[1].ok /\ generated = 2 /\ ~hist[2].ok /\ result.tag = "Err"

\* Collection mode: a first round added a value and the value of the
\* second is not an object; sample has returned the error
C29_WitnessCollection ==
    /\ pc = "returned" /\ collection_name = SomeV("a") /\ Len(hist) = 2
    /\ hist[1].ok /\ generated = 1 /\ hist[2].given.tag = "NonObject" /\ result.tag = "Err"

\* ------------------------------------------------------------------ C30
\* C30: derive_seed returns an error when --random and a seed are both
\* given; the seed given when there is a seed and no --random; 0 when
\* there is neither; and some seed, successfully, when there is --random
\* and no seed.
C30_DeriveSeed ==
    derived.tag # "None" =>
        /\ (random /\ IsSome(seed)) => derived.tag = "Err"
        /\ (~random /\ IsSome(seed)) => derived = SeedOk(Unwrap(seed))
        /\ (~random /\ IsNone(seed)) => derived = SeedOk(0)
        /\ (random /\ IsNone(seed)) => (derived.tag = "Ok" /\ derived.val \in 0..MaxSeed)

\* derive_seed(true, Some(5)) has returned an error
C30_Witness == random /\ seed = SomeV(5) /\ derived.tag = "Err"

\* derive_seed(false, Some(5)) has returned 5
C30_WitnessSeed == ~random /\ seed = SomeV(5) /\ derived = SeedOk(5)

\* derive_seed(false, None) has returned 0
C30_WitnessDefault == ~random /\ seed = NoneV /\ derived = SeedOk(0)

\* derive_seed(true, None) has returned a seed other than 0
C30_WitnessRandom == random /\ seed = NoneV /\ derived.tag = "Ok" /\ derived.val > 0

\* ------------------------------------------------------------------ C31
\* g is built from Complete primitives and once-terminated primitives
\* through the combinators, at whatever point of a run it stands
RECURSIVE BuiltFinite(_)
BuiltFinite(g) ==
    CASE g.kind \in {"Yield", "Random"} -> FALSE
      [] g.kind = "Complete" -> TRUE
      [] g.kind = "Once" -> TRUE
      [] g.kind = "AndThen" ->
            BuiltFinite(g.inner) /\ (IsSome(g.output) => BuiltFinite(Unwrap(g.output)))
      [] g.kind = "Concatenate" -> BuiltFinite(g.left) /\ BuiltFinite(g.right)
      [] g.kind = "Brace" -> BuiltFinite(g.begin) /\ BuiltFinite(g.inner) /\ BuiltFinite(g.end)
      [] g.kind = "SameAs" -> TRUE
      [] g.kind \in {"Chain", "OneOf", "Object"} ->
            /\ \A i \in 1..Len(g.inners) : BuiltFinite(g.inners[i])
            /\ (g.kind = "OneOf" /\ IsSome(g.cursor)) => BuiltFinite(Unwrap(g.cursor)[2])
      [] OTHER -> BuiltFinite(g.inner)

\* Every state the RNG of the run can be in
RngStates == {[tape |-> rng.tape, pos |-> p] : p \in 0..(Len(rng.tape) - 1)}

\* C31: wherever a run of step calls has brought a generator built from
\* Complete and once-terminated primitives, complete returns; a bare Yield
\* or Random yields on every step and is left as it was, in every state of
\* the RNG, so that complete on it steps for ever.
C31_Completion ==
    pc = "idle" =>
        /\ BuiltFinite(gen) => GenComplete(gen, rng, << >>, << >>, MaxFuel).done
        /\ \A i \in 1..Len(Inf) : \A r \in RngStates :
              LET n == GenNext(Inf[i], r)
              IN /\ is_yielded(n.res)
                 /\ n.g = Inf[i]
                 /\ n.rng \in RngStates
                 /\ ~GenComplete(Inf[i], r, << >>, << >>, MaxFuel).done

\* complete has returned for a repeat that had been stepped into the
\* middle of a round
C31_Witness ==
    /\ pc = "idle" /\ op = "complete" /\ gen.kind = "Repeat" /\ BuiltFinite(gen)
    /\ pre.g # start.g /\ Len(rounds) >= 1

\* ------------------------------------------------------------------ C32
\* Every result the run has seen so far, round after round
SeenSoFar == TracesOf(rounds, Len(rounds)) \o (IF AtBoundary THEN << >> ELSE trace)

\* C32: driven from the same RNG, (g.and_then(f)).and_then(h) and
\* g.and_then(|x| f(x).and_then(h)) give the same step results, yields and
\* returns, step after step and round after round, and draw the same
\* numbers from the RNG.
C32_Associativity ==
    pc = "idle" =>
        \A i \in 1..Len(AssocCases) :
            LET l == AssocLeft(AssocCases[i][1], AssocCases[i][2])
                r == AssocRight(AssocCases[i][1], AssocCases[i][2])
                twin == IF origin.g = l THEN r ELSE l
            IN origin.g \in {l, r} =>
                  LET t == RunSteps(twin, origin.rng, Len(SeenSoFar))
                  IN /\ t.seq = SeenSoFar
                     /\ t.rng = rng

\* (once(Random).and_then(wrap)).and_then(draws) has been driven through
\* two rounds, the first of which yielded twice
C32_Witness ==
    /\ pc = "idle" /\ origin.g = AssocLeft(once(Random), "wrap.draws")
    /\ Len(rounds) = 2 /\ Len(rounds[1].trace) = 3

\* once(Random).and_then(|x| wrap(x).and_then(draws)) has been driven
\* through two rounds, the first of which yielded twice
C32_WitnessRight ==
    /\ pc = "idle" /\ origin.g = AssocRight(once(Random), "wrap.draws")
    /\ Len(rounds) = 2 /\ Len(rounds[1].trace) = 3

\* ------------------------------------------------------------------ C33
\* The fields of the record gen that are the producer and its observers
ProducerAt == CHOOSE i \in 1..Len(gen.inners) : gen.inners[i].kind = "Shared"
ObserversAt == {i \in 1..Len(gen.inners) : gen.inners[i].kind = "SameAs"}
\* The calls of a round's log that step the producer, and those that are
\* reads of the cell, by their place in the log
ProducerSteps(l) == {i \in 1..Len(l) : l[i].who = "inners" /\ l[i].at = ProducerAt - 1}
CellReads(l) == {i \in 1..Len(l) : l[i].who = "cell"}

\* C33: in every record a run has completed, each same_as field holds the
\* value of the producer field of that record. In the round of a record
\* the producer is stepped through one round of its own and by nothing
\* else, each observer reads the cell once, after the producer has
\* completed, and gets what the producer emitted last; the reads draw
\* nothing from the RNG.
C33_SameAs ==
    (pc = "idle" /\ gen.kind = "Object") =>
        \A k \in 1..Len(rounds) :
            LET rec == Last(rounds[k].trace).val[2]
                l == rounds[k].rlog
                alone == RoundOf(origin.g.inners[ProducerAt].inner, rounds[k].start.rng)
            IN /\ \A j \in ObserversAt : rec[j] = rec[ProducerAt]
               /\ Cardinality(ProducerSteps(l)) = Len(alone.seen)
               /\ Cardinality({i \in ProducerSteps(l) : is_complete(l[i].res)}) = 1
               /\ Cardinality(CellReads(l)) = Cardinality(ObserversAt)
               /\ \A c \in CellReads(l) :
                     /\ l[c].at + 1 \in ObserversAt
                     /\ \E i \in ProducerSteps(l) :
                           /\ i < c
                           /\ is_complete(l[i].res)
                           /\ l[c].res.val = l[i].res.val
               /\ ProducerAt = 1 => rounds[k].end.rng = alone.rng

\* A record of a producer and two observers has been completed twice, the
\* producer giving 0 and then 1
C33_Witness ==
    /\ pc = "idle" /\ gen.kind = "Object" /\ Cardinality(ObserversAt) = 2
    /\ Len(rounds) = 2
    /\ Last(rounds[1].trace).val[2][1] = IntV(0)
    /\ Last(rounds[2].trace).val[2][1] = IntV(1)

\* ------------------------------------------------------------------ C34
\* C34: between rounds one_of holds no picked generator and its list is
\* the list it was constructed with, the same generators in the same order
\* and re-armed; while a round is in progress one generator is held out of
\* the list, the list is the constructed one without the generator at the
\* drawn index, and the generator held is the one of that index, which a
\* completion of the round puts back where it was taken from.
C34_OneOfKeepsList ==
    (pc = "idle" /\ gen.kind = "OneOf") =>
        LET made == origin.g.inners
        IN /\ AtBoundary =>
                 /\ IsNone(gen.cursor)
                 /\ gen.inners = made
           /\ (~AtBoundary) =>
                 /\ IsSome(gen.cursor)
                 /\ LET idx == Unwrap(gen.cursor)[1]
                        picked == Unwrap(gen.cursor)[2]
                        c == GenComplete(gen, rng, << >>, << >>, MaxFuel)
                    IN /\ idx \in 0..(Len(made) - 1)
                       /\ Len(gen.inners) = Len(made) - 1
                       /\ gen.inners = VecRemove(made, idx)
                       /\ GenComplete(picked, rng, << >>, << >>, MaxFuel).g = made[idx + 1]
                       /\ c.g.inners = made
                       /\ IsNone(c.g.cursor)
           /\ \A k \in 1..Len(rounds) :
                 /\ rounds[k].start.g.inners = made
                 /\ rounds[k].end.g.inners = made

\* one_of over two generators is in its second round and holds the first
\* generator out of the list
C34_Witness ==
    /\ pc = "idle" /\ gen.kind = "OneOf" /\ Len(origin.g.inners) = 2
    /\ Len(rounds) = 1 /\ ~AtBoundary
    /\ IsSome(gen.cursor) /\ Unwrap(gen.cursor)[1] = 0 /\ Len(gen.inners) = 1

\* one_of over two generators has completed two rounds, having picked the
\* first generator and then the second
C34_WitnessBoth ==
    /\ pc = "idle" /\ gen.kind = "OneOf" /\ Len(origin.g.inners) = 2
    /\ Len(rounds) = 2 /\ AtBoundary
    /\ rounds[1].rlog[1].res = Yielded(IntV(0)) /\ rounds[2].rlog[1].res = Yielded(IntV(1))

\* ------------------------------------------------------------------ C35
\* C35: whenever a round's array of a tracked collection adds its length
\* to the count, its elements are, in order, the end of the collection's
\* running result after that round; and a collection that sample returns
\* as an array is returned as the arrays counted for it, one after the
\* other in round order.
C35_NoCountedLost ==
    (pc # "idle" /\ graph = TwoCollections) =>
        /\ \A i \in 1..Len(hist) : \A n \in Tracked :
              LET v == hist[i].given.obj[n]
              IN (hist[i].ok /\ IsArray(v) /\ Elements(v) # << >>
                     /\ hist[i].after >= hist[i].before + Len(Elements(v))) =>
                    LET a == ResultOf(hist[i].out_after, n)
                    IN IsArray(a) /\ IsSuffix(Elements(v), Elements(a))
        /\ (pc = "returned" /\ result.tag = "Ok") =>
              \A n \in Tracked :
                  (hist # << >> /\ IsArray(ReturnedFor(n))) =>
                      ReturnedFor(n) = ArrayV(GeneratedFor(n, Len(hist)))

\* ------------------------------------------------------------------ C36
\* C36: in namespace mode over a graph with a topological order of at
\* least one collection, when the round loop has ended (after zero rounds
\* or a stall included) every name of the order has an entry in the
\* accumulated results, and sample returns a result without aborting.
C36_NeverAborts ==
    (IsNone(collection_name) /\ ordered # << >>) =>
        /\ pc = "finish" => \A k \in 1..Len(ordered) : ~IsAbsent(out[ordered[k]])
        /\ pc = "returned" => result.tag # "Panic"

\* ------------------------------------------------------------------ iterator run
\* A caller of into_iterator(g): `gen` is the Iterable, `res` what the last
\* call returned, `log` the step results of g that call looked at, `trace`
\* what next returned since the construction or the last restart, `rlog` the
\* step results of g since then, `start` the Iterable and RNG at that point,
\* `rounds` one record per restart.
IterInit ==
    /\ \E i \in 1..Len(IterSubjects) : gen = IterSubjects[i]
    /\ \E t \in Tapes : rng = [tape |-> t, pos |-> 0]
    /\ op = "new"
    /\ res = NoneV
    /\ log = << >>
    /\ pre = [g |-> gen, rng |-> rng]
    /\ trace = << >>
    /\ rlog = << >>
    /\ start = [g |-> gen, rng |-> rng]
    /\ rounds = << >>
    /\ origin = [g |-> gen, rng |-> rng]
    /\ calls = 0
    /\ SamplerIdle
    /\ CliIdle

\* iter.next()
DoIterNext ==
    /\ calls < MaxSteps
    /\ LET n == IterableNext(gen, rng)
       IN /\ gen' = n.it
          /\ rng' = n.rng
          /\ op' = "iter_next"
          /\ res' = n.ret
          /\ log' = n.seen
          /\ pre' = [g |-> gen, rng |-> rng]
          /\ trace' = Append(trace, n.ret)
          /\ rlog' = rlog \o n.seen
          /\ calls' = calls + 1
          /\ UNCHANGED <<start, rounds, origin, svars, cvars>>

\* iter.restart(), where it returns
DoIterRestart ==
    /\ calls < MaxSteps
    /\ LET n == IterableRestart(gen, rng, << >>, MaxFuel)
       IN /\ n.done
          /\ gen' = n.it
          /\ rng' = n.rng
          /\ op' = "restart"
          /\ res' = n.ret
          /\ log' = n.seen
          /\ pre' = [g |-> gen, rng |-> rng]
          /\ trace' = << >>
          /\ rlog' = << >>
          /\ start' = [g |-> n.it, rng |-> n.rng]
          /\ rounds' = Append(rounds, [trace |-> trace, rlog |-> rlog \o n.seen, start |-> start,
                                       end |-> [g |-> n.it, rng |-> n.rng]])
          /\ calls' = calls + 1
          /\ UNCHANGED <<origin, svars, cvars>>

IterNext == DoIterNext \/ DoIterRestart

SpecIter == IterInit /\ [][IterNext]_vars

\* ------------------------------------------------------------------ C37
\* The number of leading yields of a sequence of step results
RECURSIVE LeadingYields(_)
LeadingYields(s) ==
    IF s = << >> \/ is_complete(s[1]) THEN 0 ELSE 1 + LeadingYields(Tail(s))
\* C37: since the construction or the last restart, the k-th next()
\* returned Some of the k-th yield of g's round while the round had not
\* completed, and None from the call that saw g complete onwards; g was
\* stepped once per call up to that call and not at all afterwards; and
\* restart() returned the return value of the round it ended, having
\* stepped g through exactly the rest of that round, and left the iterator
\* with no stored output, so that the next() after it steps g.
C37_Iterator ==
    LET steps == RunSteps(start.g.inner, start.rng, Len(trace))
        ny == LeadingYields(steps.seq)
        completed == ny < Len(trace)
        made == IF completed THEN ny + 1 ELSE ny
        at == RunSteps(start.g.inner, start.rng, made)
    IN /\ IsNone(start.g.output)
       /\ \A k \in 1..Len(trace) :
             trace[k] = IF k <= ny THEN SomeV(steps.seq[k].val) ELSE NoneV
       /\ rlog = at.seq
       /\ gen.inner = at.g /\ rng = at.rng
       /\ gen.output = IF completed THEN SomeV(steps.seq[ny + 1].val) ELSE NoneV
       /\ (op = "iter_next" /\ IsSome(pre.g.output)) =>
             res = NoneV /\ log = << >> /\ gen = pre.g /\ rng = pre.rng
       /\ op = "restart" =>
             LET rec == rounds[Len(rounds)]
                 rd == RoundOf(rec.start.g.inner, rec.start.rng)
             IN /\ rd.done
                /\ res = rd.ret
                /\ rec.rlog = rd.seen
                /\ gen = [rec.start.g EXCEPT !.inner = rd.g] /\ rng = rd.rng
                /\ pre.g.inner = RunSteps(rec.start.g.inner, rec.start.rng,
                                          Len(rec.rlog) - Len(log)).g

\* next() has returned a yield, then None on the completion, then None
\* again without a step, and a restart has handed the return value over
\* and the next() after it has returned a yield of the following round
C37_Witness ==
    /\ Len(rounds) = 1 /\ Len(rounds[1].trace) = 2
    /\ IsSome(rounds[1].trace[1]) /\ rounds[1].trace[2] = NoneV
    /\ Len(rounds[1].rlog) = 2
    /\ op = "iter_next" /\ IsSome(res)

\* restart() was called in the middle of a round and drained the rest
C37_WitnessDrain ==
    /\ op = "restart" /\ Len(rounds[Len(rounds)].trace) = 1 /\ Len(log) >= 1
    /\ IsSome(rounds[Len(rounds)].trace[1])

\* next() returned None a second time, the generator left alone
C37_WitnessIdle ==
    /\ op = "iter_next" /\ IsSome(pre.g.output) /\ Len(trace) >= 3 /\ IsSome(trace[1])

\* ------------------------------------------------------------------ C39
\* What map_yielded(g, f) and map_complete(g, f) make of a step result of g
MappedResult(kind, f, r) ==
    IF kind = "MapYielded"
    THEN (IF is_yielded(r) THEN Yielded(ApplyMap(f, r.val)) ELSE r)
    ELSE (IF is_complete(r) THEN Completed(ApplyMap(f, r.val)) ELSE r)
\* C39: the step results of map_yielded(g, f) and of map_complete(g, f)
\* are, one for one and in order, the step results of g driven on its own
\* from the same RNG, with f applied to the yielded values only
\* (map_yielded) or to the returned values only (map_complete) and the
\* other channel unchanged; g is stepped once per step and the RNG is
\* left as g left it.
C39_MapOneChannel ==
    gen.kind \in {"MapYielded", "MapComplete"} =>
        LET all == SeenSoFar
            own == RunSteps(origin.g.inner, origin.rng, Len(all))
        IN /\ \A k \in 1..Len(all) : all[k] = MappedResult(gen.kind, gen.closure, own.seq[k])
           /\ \A k \in 1..Len(all) :
                 IF gen.kind = "MapYielded"
                 THEN is_complete(own.seq[k]) => all[k] = own.seq[k]
                 ELSE is_yielded(own.seq[k]) => all[k] = own.seq[k]
           /\ gen = [origin.g EXCEPT !.inner = own.g]
           /\ rng = own.rng
           /\ op = "next" => Len(CallsOn(log, "inner")) = 1

\* map_yielded has changed a yield and passed a return through
C39_Witness ==
    /\ gen.kind = "MapYielded" /\ Len(rounds) >= 1
    /\ \E k \in 1..Len(rounds[1].trace) :
          /\ is_yielded(rounds[1].trace[k])
          /\ rounds[1].trace[k] # RunSteps(origin.g.inner, origin.rng, k).seq[k]
    /\ Last(rounds[1].trace) = Last(RunSteps(origin.g.inner, origin.rng, Len(rounds[1].trace)).seq)

\* map_complete has passed a yield through and changed a return
C39_WitnessComplete ==
    /\ gen.kind = "MapComplete" /\ Len(rounds) >= 1 /\ Len(rounds[1].trace) >= 2
    /\ rounds[1].trace[1] = RunSteps(origin.g.inner, origin.rng, 1).seq[1]
    /\ Last(rounds[1].trace) # Last(RunSteps(origin.g.inner, origin.rng, Len(rounds[1].trace)).seq)

\* ------------------------------------------------------------------ compile run
\* A namespace whose one collection x is a bool node, before it is
\* compiled: `graph` holds the content until compile has given a graph
SourceOf(content) == [kind |-> "Content", fields |-> content]

CompileInit ==
    /\ GenIdle
    /\ CliIdle
    /\ \E c \in BoolContents : graph = SourceOf(c)
    /\ collection_name \in {NoneV, SomeV("zz"), SomeV("x")}
    /\ target \in 0..MaxTarget
    /\ ordered \in (IF IsNone(collection_name) THEN {<< >>, <<"x">>} ELSE {<< >>})
    /\ generated = 0
    /\ out = IF IsNone(collection_name) THEN [n \in KeySet |-> Absent] ELSE ArrayV(<< >>)
    /\ pc = "compile"
    /\ result = [tag |-> "None", val |-> << >>]
    /\ warned = FALSE
    /\ hist = << >>
    /\ run = 1
    /\ first = [result |-> [tag |-> "None", val |-> << >>], hist |-> << >>]

\* Graph::from_namespace(&namespace)?: a failed compilation is returned
\* and nothing is sampled; a graph is handed to the sampler
DoCompile ==
    /\ pc = "compile"
    /\ LET c == from_namespace(graph.fields)
       IN /\ pc' = IF c.tag = "Ok" THEN "loop" ELSE "failed"
          /\ graph' = IF c.tag = "Ok" THEN c.graph ELSE graph
          /\ result' = IF c.tag = "Ok" THEN result ELSE [tag |-> "Err", val |-> c.val]
    /\ UNCHANGED <<collection_name, target, ordered, generated, out, warned, hist, run, first,
                   gvars, cvars>>

CompileNext == DoCompile \/ SamplerNext

SpecCompile == CompileInit /\ [][CompileNext]_vars

\* ------------------------------------------------------------------ C38
\* C38: compiling Frequency(p) fails with "invalid frequency" and leaves no
\* graph exactly when p is outside [0, 1] (p in halves: below 0 or above
\* 2); Constant(b) and Categorical(cat) always compile; and every value a
\* compiled Constant(b) node gives in a round is b.
C38_BoolCompile ==
    /\ pc = "failed" =>
          /\ graph.kind = "Content" /\ graph.fields[1] = "Frequency"
          /\ graph.fields[2] < 0 \/ graph.fields[2] > 2
          /\ result = [tag |-> "Err", val |-> "invalid frequency"]
    /\ pc \notin {"compile", "failed"} =>
          /\ graph.kind = "Object" /\ graph.fields[2].kind = "Bool"
          /\ graph.fields[2].fields[1] = "Bernoulli" =>
                graph.fields[2].fields[2] >= 0 /\ graph.fields[2].fields[2] <= 2
          /\ graph.fields[2].fields[1] = "Constant" =>
                \A i \in 1..Len(hist) :
                    hist[i].given.obj["x"] = BoolV(graph.fields[2].fields[2])
    /\ \A c \in BoolContents :
          c[1] \in {"Constant", "Categorical"} =>
              compile(c).tag = "Ok" /\ compile(c).graph.fields = c

\* A frequency above 1 has failed to compile
C38_Witness ==
    pc = "failed" /\ graph.fields = <<"Frequency", 3>> /\ result.tag = "Err"

\* A compiled Constant(TRUE) has given its value in two rounds, and a
\* frequency of 1 has compiled
C38_WitnessConstant ==
    /\ pc = "returned" /\ graph.kind = "Object" /\ graph.fields[2].fields = <<"Constant", TRUE>>
    /\ Len(hist) = 2 /\ hist[2].ok
C38_WitnessOne ==
    pc = "loop" /\ graph.kind = "Object" /\ graph.fields[2].fields = <<"Bernoulli", 2>>

\* ------------------------------------------------------------------ import run
\* A working directory, initialised or not, with nothing imported yet
ImportInit ==
    /\ GenIdle
    /\ SamplerIdle
    /\ random = FALSE
    /\ seed = NoneV
    /\ derived = [tag |-> "None", val |-> 0]
    /\ workspace \in BOOLEAN
    /\ store = EmptyStore
    /\ imported = [n |-> 0]

\* `synth init` in a directory that is not a workspace yet: .synth and
\* .synth/config.toml are created
DoInit ==
    /\ ~workspace
    /\ workspace' = TRUE
    /\ UNCHANGED <<random, seed, derived, store, imported, gvars, svars>>

\* `synth import <path> [--collection <name>]`
DoImport ==
    /\ imported.n < MaxImports
    /\ \E path \in ImportPaths, c \in {NoneV} \cup {SomeV(x) : x \in Colls}, strat \in Strategies :
          LET r == import(workspace, store, path, c, strat, imported.n + 1)
          IN /\ store' = r.store
             /\ imported' = [n |-> imported.n + 1, path |-> path, collection |-> c,
                             tag |-> r.tag, val |-> r.val, ws |-> workspace, before |-> store]
    /\ UNCHANGED <<random, seed, derived, workspace, gvars, svars>>

ImportNext == DoInit \/ DoImport

SpecImport == ImportInit /\ [][ImportNext]_vars

\* ------------------------------------------------------------------ C40
\* C40: an import returns an error and leaves the store as it was when the
\* workspace is not initialised, when the path is absolute, when the named
\* collection exists already, or when no collection is named and the
\* namespace exists already; and whatever an import saved, namespace or
\* collection, did not exist before it: everything that existed is still
\* as it was.
C40_ImportNeverOverwrites ==
    imported.n > 0 =>
        LET b == imported.before
            p == imported.path
            named == IsSome(imported.collection)
            refused ==
                \/ ~imported.ws
                \/ p.abs
                \/ named /\ b[p.ns].exists /\ b[p.ns].colls[Unwrap(imported.collection)] # 0
                \/ ~named /\ b[p.ns].exists
        IN /\ refused => (imported.tag = "Err" /\ store = b)
           /\ imported.tag = "Err" => store = b
           /\ \A q \in NsPaths :
                 /\ b[q].exists => store[q].exists
                 /\ \A c \in Colls : b[q].colls[c] # 0 => store[q].colls[c] = b[q].colls[c]
                 /\ (~named /\ b[q].exists) => store[q] = b[q]
                 /\ store[q] # b[q] => (imported.tag = "Ok" /\ q = p.ns /\ ~p.abs)

\* An import of a namespace that exists has been refused after an import
\* that saved it
C40_Witness ==
    /\ imported.n >= 2 /\ imported.tag = "Err" /\ IsNone(imported.collection)
    /\ imported.ws /\ ~imported.path.abs /\ imported.before[imported.path.ns].exists
    /\ \E c \in Colls : store[imported.path.ns].colls[c] # 0

\* A collection has been imported into a namespace that existed, beside
\* the collection it held
C40_WitnessCollection ==
    /\ imported.n >= 2 /\ imported.tag = "Ok" /\ IsSome(imported.collection)
    /\ imported.before[imported.path.ns].exists
    /\ \E c \in Colls : c # Unwrap(imported.collection) /\ store[imported.path.ns].colls[c] # 0

====
